---- MODULE Spec2Model ----
(***************************************************************************)
(* Model of the HabitatAgent property search core:                         *)
(*   - MongoDBFilter.build_query  (mcp_servers/searching/utilities)        *)
(*   - HybridReranker.rerank      (V2/mcp/searching/utilities)             *)
(*   - PropertySearchPipeline.search, search_properties and                *)
(*     get_property_summary       (V2/mcp/searching/server.py)             *)
(*   - MongoDBFilter.__init__ and _ensure_indexes                          *)
(*   - HybridReranker.build_listing_text                                   *)
(*   - SearchAgentExecutor.execute and MCPHelpers.call_tool                *)
(*     (V2/agentsV2/search, V2/utilities/mcp)                              *)
(*   - SearchAgentExecutor.execute and AlertAgentExecutor.execute, the     *)
(*     streaming executors     (agents/search, agents/alert)               *)
(*   - ProceduralMemoryStore and SessionManager  (agents/memory)           *)
(*   - parse_and_confirm_listing  (mcp_servers/listings_mdb/server.py)     *)
(*   - ListingMonitor and create_alert  (mcp_servers/alert_email)          *)
(*                                                                         *)
(* Text is modelled as sequences of one-character strings so that          *)
(* lower(), strip(), split(), str() and int() are computed, not assumed.   *)
(* Python values that may be None carry a kind tag k.                      *)
(***************************************************************************)
EXTENDS Integers, Sequences, FiniteSets, TLC

\* ------------------------------------------------------------------ bounds
MaxListings == 2
MaxTopK == 2
MaxPrice == 2

\* ------------------------------------------------------- python primitives
Range(f) == {f[i] : i \in DOMAIN f}

DigitChars == <<"0", "1", "2", "3", "4", "5", "6", "7", "8", "9">>

\* str.isdigit() on one character
IsDigit(c) == c \in Range(DigitChars)

DigitVal(c) == CHOOSE d \in 0..9 : DigitChars[d + 1] = c

\* str(n) for a non-negative int
RECURSIVE IntToStr(_)
IntToStr(n) ==
    IF n < 10 THEN <<DigitChars[n + 1]>>
    ELSE IntToStr(n \div 10) \o <<DigitChars[(n % 10) + 1]>>

\* int(s) for a string of decimal digits
RECURSIVE StrToInt(_)
StrToInt(s) ==
    IF s = <<>> THEN 0
    ELSE StrToInt(SubSeq(s, 1, Len(s) - 1)) * 10 + DigitVal(s[Len(s)])

\* "".join(ch for ch in s if ch.isdigit())
RECURSIVE KeepDigits(_)
KeepDigits(s) ==
    IF s = <<>> THEN <<>>
    ELSE (IF IsDigit(Head(s)) THEN <<Head(s)>> ELSE <<>>) \o KeepDigits(Tail(s))

LowerChar(c) == IF c = "X" THEN "x" ELSE IF c = "Y" THEN "y" ELSE c

\* str.lower()
Lower(s) == [i \in 1..Len(s) |-> LowerChar(s[i])]

IsSpace(c) == c = " "

\* str.strip()
RECURSIVE LStrip(_)
LStrip(s) == IF s # <<>> /\ IsSpace(Head(s)) THEN LStrip(Tail(s)) ELSE s

RECURSIVE RStrip(_)
RStrip(s) ==
    IF s # <<>> /\ IsSpace(s[Len(s)]) THEN RStrip(SubSeq(s, 1, Len(s) - 1)) ELSE s

Strip(s) == RStrip(LStrip(s))

\* str.split(): maximal runs of non-whitespace characters, in order
RECURSIVE SplitFrom(_, _)
SplitFrom(s, cur) ==
    IF s = <<>> THEN (IF cur = <<>> THEN <<>> ELSE <<cur>>)
    ELSE IF IsSpace(Head(s))
         THEN (IF cur = <<>> THEN <<>> ELSE <<cur>>) \o SplitFrom(Tail(s), <<>>)
         ELSE SplitFrom(Tail(s), cur \o <<Head(s)>>)

Split(s) == SplitFrom(s, <<>>)

\* needle in haystack (python `in` on str)
Contains(hay, needle) ==
    \E i \in 0..(Len(hay) - Len(needle)) : SubSeq(hay, i + 1, i + Len(needle)) = needle

\* ---------------------------------------------------- optional text values
\* k = "none": the JSON null / Python None;  k = "missing": key not in dict;
\* k = "str": a Python str with characters s.
None == [k |-> "none", s |-> <<>>]
Missing == [k |-> "missing", s |-> <<>>]
Text(s) == [k |-> "str", s |-> s]

\* dict.get(key): a missing key reads as None
DictGet(v) == IF v.k = "missing" THEN None ELSE v

\* dict.get(key, ""): only a missing key takes the default
DictGetDefault(v) == IF v.k = "missing" THEN Text(<<>>) ELSE v

\* truthiness of an optional str
TruthyText(v) == v.k = "str" /\ v.s # <<>>

\* ------------------------------------------------------------ price values
\* The interpreter returns JSON: null, an int, or a float ip.fd (one decimal).
NoPrice == [k |-> "none", ip |-> 0, fd |-> 0]
IntPrice(n) == [k |-> "int", ip |-> n, fd |-> 0]
FloatPrice(n, d) == [k |-> "float", ip |-> n, fd |-> d]

TruthyPrice(p) == p.k # "none" /\ (p.ip # 0 \/ p.fd # 0)

\* str(price)
PriceStr(p) ==
    IF p.k = "int" THEN IntToStr(p.ip)
    ELSE IF p.k = "float" THEN IntToStr(p.ip) \o <<".">> \o IntToStr(p.fd)
    ELSE <<"N", "o", "n", "e">>

\* --------------------------------------------------------- listing store
\* The documents of the tulire_listings collection.  Listing i has an
\* address, a title and a numeric rent_price; the tables repeat after four.
ListingIds == 1..MaxListings

AddressOf(i) ==
    LET j == ((i - 1) % 4) + 1
    IN  <<  <<"x", " ", "y">>,  <<"x", "y">>,  <<"X">>,  <<"y">>  >>[j]

TitleOf(i) ==
    LET j == ((i - 1) % 4) + 1
    IN  <<  <<"Y">>,  <<"a", " ", "y">>,  <<"y">>,  <<"y", " ", "x", "y">>  >>[j]

RentOf(i) ==
    LET j == ((i - 1) % 4) + 1
    IN  <<2, 3, 4, 25>>[j] + 30 * ((i - 1) \div 4)

\* -------------------------------------------------- interpreter's outputs
\* UserMessageParser.extract is a black box returning location, price and
\* rag_content, each possibly null; rag_content may also be left out.
LocationVals ==
    {None, Text(<<>>), Text(<<"x">>), Text(<<"X", ",", "y">>),
     Text(<<"y", " ", "-", "x">>), Text(<<"\"", "x", " ", "y", "\"">>)}

PriceVals ==
    {NoPrice} \cup {IntPrice(n) : n \in 1..MaxPrice}
              \cup {FloatPrice(n, 5) : n \in 1..MaxPrice}

RagVals ==
    {None, Missing, Text(<<" ">>), Text(<<"x">>)}

ParsedMessages ==
    [location : LocationVals, price : PriceVals, rag_content : RagVals]

\* raw user messages (the text the tool is called with)
UserMessages == {<<"x">>, <<" ">>}

\* UserMessageParser.extract, `except Exception`: any failure of the chain
\* is answered with no location, no price and the raw message as the
\* preference text
extract_fallback(user_message) ==
    [location |-> None, price |-> NoPrice, rag_content |-> Text(user_message)]

\* ----------------------------------------------------------- build_query
NoText == [set |-> FALSE, search |-> <<>>]
NoRent == [set |-> FALSE, lte |-> 0]

\* MongoDBFilter.build_query: {"$text": {"$search": location}} when the
\* location is truthy; {"rent_price": {"$lte": int(digits of str(price))}}
\* when the price is truthy and has at least one digit.
build_query(parsed_message) ==
    LET location  == DictGet(parsed_message.location)
        price     == parsed_message.price
        price_str == KeepDigits(PriceStr(price))
    IN  [text |-> IF TruthyText(location)
                  THEN [set |-> TRUE, search |-> location.s]
                  ELSE NoText,
         rent_price |-> IF TruthyPrice(price) /\ price_str # <<>>
                        THEN [set |-> TRUE, lte |-> StrToInt(price_str)]
                        ELSE NoRent]

\* --------------------------------------------------------- collection.find
\* $text of the server, on the characters of the model: the letters x, y
\* and a (upper case X, Y), the space, and the punctuation , - and ".
\* The text index and the query split a text into words at every
\* character that is not a letter, fold the case, drop the stop words of
\* the language and stem what is left.
Delimiters == {" ", ",", "-", "\""}

\* maximal runs of letters, in order
RECURSIVE TokensFrom(_, _)
TokensFrom(s, cur) ==
    IF s = <<>> THEN (IF cur = <<>> THEN <<>> ELSE <<cur>>)
    ELSE IF Head(s) \in Delimiters
         THEN (IF cur = <<>> THEN <<>> ELSE <<cur>>) \o TokensFrom(Tail(s), <<>>)
         ELSE TokensFrom(Tail(s), cur \o <<Head(s)>>)

Tokens(s) == TokensFrom(s, <<>>)

\* the English stop words among the words of the model
StopWords == { <<"a">> }

\* The English stemmer leaves a word of one or two letters as it is; the
\* texts of the model hold no longer word.
Stem(word) == word

\* the terms of a text: its words, lower-cased, without the stop words,
\* stemmed
TextTerms(s) ==
    { Stem(word) : word \in { w \in Range(Tokens(Lower(s))) : w \notin StopWords } }

\* The tokens of a $search string: whitespace separates them, - and " are
\* tokens of their own, and each token knows whether whitespace (or the
\* start of the string) came before it.
RECURSIVE RunEnd(_, _)
RunEnd(s, i) ==
    IF i < Len(s) /\ s[i + 1] \notin {" ", "-", "\""} THEN RunEnd(s, i + 1) ELSE i

RECURSIVE QueryTokens(_, _, _)
QueryTokens(s, i, previousWhiteSpace) ==
    IF i > Len(s) THEN <<>>
    ELSE IF s[i] = " " THEN QueryTokens(s, i + 1, TRUE)
    ELSE IF s[i] \in {"-", "\""}
    THEN << [type |-> "DELIMITER", data |-> <<s[i]>>, offset |-> i,
             previousWhiteSpace |-> previousWhiteSpace] >>
            \o QueryTokens(s, i + 1, FALSE)
    ELSE << [type |-> "TEXT", data |-> SubSeq(s, i, RunEnd(s, i)), offset |-> i,
             previousWhiteSpace |-> previousWhiteSpace] >>
            \o QueryTokens(s, RunEnd(s, i) + 1, FALSE)

NoTextQuery ==
    [inNegation |-> FALSE, inPhrase |-> FALSE, quoteOffset |-> 0,
     terms |-> {}, negatedTerms |-> {},
     positivePhrases |-> {}, negatedPhrases |-> {}]

\* One token of the $search string.  A word is a term, negated when a -
\* that follows whitespace stands directly before it; the words of a
\* negated phrase are no terms.  A " opens or closes a phrase, which is
\* the text between the two quotes.
ParseToken(s, t, q) ==
    IF t.type = "TEXT"
    THEN IF q.inPhrase /\ q.inNegation THEN q
         ELSE IF q.inNegation /\ ~t.previousWhiteSpace
         THEN [q EXCEPT !.negatedTerms = @ \cup TextTerms(t.data)]
         ELSE [q EXCEPT !.terms = @ \cup TextTerms(t.data), !.inNegation = FALSE]
    ELSE IF t.data = <<"-">>
    THEN IF ~q.inPhrase /\ t.previousWhiteSpace
         THEN [q EXCEPT !.inNegation = TRUE]
         ELSE q
    ELSE IF q.inPhrase
    THEN LET phrase == SubSeq(s, q.quoteOffset + 1, t.offset - 1)
         IN  IF q.inNegation
             THEN [q EXCEPT !.negatedPhrases = @ \cup {phrase}, !.inPhrase = FALSE]
             ELSE [q EXCEPT !.positivePhrases = @ \cup {phrase}, !.inPhrase = FALSE]
    ELSE [q EXCEPT !.inPhrase = TRUE, !.quoteOffset = t.offset,
                   !.inNegation = q.inNegation /\ ~t.previousWhiteSpace]

RECURSIVE ParseTokens(_, _, _)
ParseTokens(s, tokens, q) ==
    IF tokens = <<>> THEN q
    ELSE ParseTokens(s, Tail(tokens), ParseToken(s, Head(tokens), q))

\* the terms and phrases of a $search string
TextQuery(search) == ParseTokens(search, QueryTokens(search, 1, TRUE), NoTextQuery)

\* The indexes of the collection, as index_information() reports them: a
\* name, the key as (field, type) pairs, and for a text index the fields
\* it covers (the server reports a text index under the key _fts/_ftsx and
\* lists its fields as weights).
VARIABLES
    indexes,            \* the collection's indexes
    index_cmds,         \* index commands the last MongoDBFilter() issued
    ix_pc,              \* where a MongoDBFilter() under construction stands
    ix_existing         \* `existing`, the index information it read

IdIndex == [name |-> "_id_", key |-> << <<"_id", "1">> >>, weights |-> {}]

TextIndex(name, fields) ==
    [name |-> name,
     key |-> << <<"_fts", "text">>, <<"_ftsx", "1">> >>,
     weights |-> fields]

RentIndex(name) ==
    [name |-> name, key |-> << <<"rent_price", "1">> >>, weights |-> {}]

\* the fields the collection's text index covers; none without a text index
TextFields == UNION {x.weights : x \in indexes}

\* the texts of listing i the text index covers
IndexedTexts(i) ==
    (IF "address" \in TextFields THEN {AddressOf(i)} ELSE {})
        \cup (IF "title" \in TextFields THEN {TitleOf(i)} ELSE {})

\* the terms of listing i the text index holds
IndexedTerms(i) == UNION { TextTerms(text) : text \in IndexedTexts(i) }

\* a phrase is looked up in the indexed texts themselves, ignoring case
HasPhrase(phrase, i) ==
    \E text \in IndexedTexts(i) : Contains(Lower(text), Lower(phrase))

\* $text/$search over the text index (on address and title once the filter
\* has built it): a document matches when it holds one of the terms of the
\* search, none of the negated terms, every phrase and no negated phrase.
\* A search without a term (empty, stop words only, negations only)
\* matches nothing.
TextMatches(search, i) ==
    LET q == TextQuery(search)
    IN  /\ q.terms \cap IndexedTerms(i) # {}
        /\ q.negatedTerms \cap IndexedTerms(i) = {}
        /\ \A phrase \in q.positivePhrases : HasPhrase(phrase, i)
        /\ \A phrase \in q.negatedPhrases : ~HasPhrase(phrase, i)

MatchesQuery(query, i) ==
    /\ query.text.set => TextMatches(query.text.search, i)
    /\ query.rent_price.set => RentOf(i) <= query.rent_price.lte

\* the matching documents in natural (arrival) order; docs is the
\* collection as a sequence in that order
RECURSIVE Matching(_, _)
Matching(query, docs) ==
    IF docs = <<>> THEN <<>>
    ELSE (IF MatchesQuery(query, Head(docs)) THEN <<Head(docs)>> ELSE <<>>)
         \o Matching(query, Tail(docs))

\* the orders of a list
Orders(docs) ==
    { [j \in DOMAIN docs |-> docs[p[j]]] :
        p \in { f \in [DOMAIN docs -> DOMAIN docs] :
                  \A a, b \in DOMAIN docs : a # b => f[a] # f[b] } }

\* list(collection.find(query)): the query has no sort, so the server
\* returns the matching documents in an order of its choice (the order of
\* the index it scans, or of the records on disk)
Find(query, docs) == Orders(Matching(query, docs))

\* ------------------------------------------------------------------ state
VARIABLES
    store,              \* the collection: listing ids in arrival order
    alpha, beta,        \* HybridReranker weights, set at construction
    pc,                 \* position of the request in the tool handler
    tool,               \* "search_properties" or "get_property_summary"
    user_query,         \* the tool's user_query argument
    top_k,              \* max_results passed to _pipeline.search
    parsed_message,     \* result of message_parser.extract
    mongo_query,        \* result of build_query
    candidates,         \* list(collection.find(mongo_query))
    emb_scores,         \* cosine similarity of candidates[i] (scaled)
    bm25_scores,        \* BM25 score of candidates[i] (scaled)
    final_scores,       \* final score of candidates[i] (empty: not reranked)
    ranked_candidates,  \* candidates after the rerank step
    final_results,      \* value returned by PropertySearchPipeline.search
    exc,                \* exception a pipeline step raised, or "none"
    encode_calls,       \* embedder.encode calls made for the request
    bm25_built,         \* a BM25Okapi index was built for the request
    outcome,            \* value the tool returned
    interp_failed       \* extract caught an exception and fell back

\* SearchAgentExecutor (V2/agentsV2/search/agent_executor.py)
VARIABLES
    ex_initialized,     \* self._initialized
    mcp_connector,      \* self.mcp_connector: the task whose get_tools is
                        \* loading it, whether it holds "property-search"
    ex_pc,              \* per task: position of its execute
    search_result,      \* per task: dict returned by _search_properties_via_mcp
    updates,            \* per task: status updates sent, in order
    ex_raised,          \* per task: execute ended by re-raising
    cancel_result       \* per task: how the last cancel call on it ended

\* search requests served concurrently by the one pipeline
VARIABLES
    reqs                \* per request: its position and local values

\* calls of the reranker's functions on their own
VARIABLES
    rr_in,              \* arguments of a pair of rerank calls
    rr_out,             \* the two orders returned
    listing,            \* argument of build_listing_text
    listing_text        \* its result

\* the streaming executors (agents/search and agents/alert agent_executor.py)
VARIABLES
    st_initialized,     \* per executor: _initialized
    st_agent,           \* per task: the executor that runs it
    st_pc,              \* per task: position of its execute
    st_events,          \* per task: items the stream has yielded so far
    st_updates,         \* per task: status updates sent, in order
    st_raised           \* per task: execute ended by raising

\* the session memory (agents/memory): the Redis keys session:<id> and the
\* callers at work on them
VARIABLES
    redis,              \* session id -> the ProceduralMemory saved under it
    procs               \* per caller: the store call it is in

\* the listing creation tool (mcp_servers/listings_mdb/server.py)
VARIABLES
    inserted,           \* documents the tool has inserted, in order
    lc_call             \* the last call of a listing tool

\* the listing monitor (mcp_servers/alert_email)
VARIABLES
    alerts,             \* the alert collection, in insertion order
    mon                 \* the process_new_listing call under way

coreVars == <<store, alpha, beta, pc, tool, top_k, parsed_message, mongo_query,
              candidates, emb_scores, bm25_scores, final_scores,
              ranked_candidates, final_results, exc, encode_calls, bm25_built,
              outcome, interp_failed, user_query>>

execVars == <<ex_initialized, mcp_connector, ex_pc, search_result, updates, ex_raised,
              cancel_result>>

idxVars == <<indexes, index_cmds, ix_pc, ix_existing>>

concVars == <<reqs>>

fnVars == <<rr_in, rr_out, listing, listing_text>>

streamVars == <<st_initialized, st_agent, st_pc, st_events, st_updates,
                st_raised>>

\* the search server, its executor and the reranker's functions
baseVars == <<coreVars, execVars, idxVars, concVars, fnVars>>

sessVars == <<redis, procs>>

listVars == <<inserted, lc_call>>

alertVars == <<alerts, mon>>

\* the other services of the repository
svcVars == <<streamVars, sessVars, listVars, alertVars>>

\* the variables execute does not touch
nonExecVars == <<coreVars, idxVars, concVars, fnVars, svcVars>>

\* the variables the search tools do not touch
auxVars == <<execVars, idxVars, concVars, fnVars, svcVars>>

\* the variables the streaming executors do not touch
nonStreamVars == <<baseVars, sessVars, listVars, alertVars>>

\* the variables the session memory does not touch
nonSessVars == <<baseVars, streamVars, listVars, alertVars>>

\* the variables the listing creation tool does not touch
nonListVars == <<baseVars, streamVars, sessVars, alertVars>>

\* the variables the listing monitor does not touch
nonAlertVars == <<baseVars, streamVars, sessVars, listVars>>

vars == <<coreVars, auxVars>>

\* weights the configuration file may hold (params.yaml: alpha, beta)
Weights == {0, 1, 2}

\* scaled cosine similarity of one listing text to the preference text
\* (the cosine lies in [-1, 1]; one value on each side of zero)
SemVals == {-1, 1}

\* scaled BM25 score of one listing text
LexVals == {0, 1}

Tools == {"search_properties", "get_property_summary"}

NoQuery == [text |-> NoText, rent_price |-> NoRent]
NoMessage == [location |-> None, price |-> NoPrice, rag_content |-> None]
Pending == [status |-> "pending"]

\* ----------------------------------------------------------------- rerank
\* a descending sort that puts a later equal key first (sort, then reverse)
RECURSIVE InsertDescUnstable(_, _)
InsertDescUnstable(sorted, x) ==
    IF sorted = <<>> THEN <<x>>
    ELSE IF Head(sorted)[1] > x[1]
         THEN <<Head(sorted)>> \o InsertDescUnstable(Tail(sorted), x)
         ELSE <<x>> \o sorted

\* list.sort(reverse=True, key=score): stable, equal keys keep input order.
\* Entries are <<score, candidate>>.
RECURSIVE InsertDesc(_, _)
InsertDesc(sorted, x) ==
    IF sorted = <<>> THEN <<x>>
    ELSE IF Head(sorted)[1] >= x[1]
         THEN <<Head(sorted)>> \o InsertDesc(Tail(sorted), x)
         ELSE <<x>> \o sorted

RECURSIVE SortDesc(_)
SortDesc(pairs) ==
    IF pairs = <<>> THEN <<>>
    ELSE InsertDesc(SortDesc(SubSeq(pairs, 1, Len(pairs) - 1)), pairs[Len(pairs)])

\* a final score with the two weights exchanged
FinalScoresSwapped(a, b, emb, bm25) ==
    [i \in DOMAIN emb |-> a * bm25[i] + b * emb[i]]

\* final_score = alpha * emb_score + beta * bm25_score, per candidate
FinalScores(a, b, emb, bm25) ==
    [i \in DOMAIN emb |-> a * emb[i] + b * bm25[i]]

\* a rerank that leaves out the candidates scoring nothing
rerank_drop_unscored(scores, cands) ==
    LET pairs  == [i \in DOMAIN cands |-> <<scores[i], cands[i]>>]
        sorted == SortDesc(SelectSeq(pairs, LAMBDA p : p[1] > 0))
    IN  [i \in DOMAIN sorted |-> sorted[i][2]]

\* HybridReranker.rerank, given the scores the embedder and BM25 returned
rerank(scores, cands) ==
    LET pairs  == [i \in DOMAIN cands |-> <<scores[i], cands[i]>>]
        sorted == SortDesc(pairs)
    IN  [i \in DOMAIN sorted |-> sorted[i][2]]

\* ranked_candidates[:top_k + 1]
TruncateOneMore(ranked, k) ==
    SubSeq(ranked, 1, IF k + 1 < Len(ranked) THEN k + 1 ELSE Len(ranked))

\* ranked_candidates[:top_k]
Truncate(ranked, k) == SubSeq(ranked, 1, IF k < Len(ranked) THEN k ELSE Len(ranked))

\* -------------------------------------------------------- tool responses
\* search_properties: the three JSON bodies it can return
SearchEmpty ==
    [status |-> "success",
     message |-> <<"No properties found matching your criteria">>,
     count |-> 0,
     results |-> <<>>]

\* the found body: it alone echoes the user_query
SearchFound(query, results) ==
    [status |-> "success",
     message |-> <<"Found ">> \o IntToStr(Len(results)) \o <<" matching properties">>,
     count |-> Len(results),
     query |-> query,
     results |-> results]

SearchError(e) ==
    [status |-> "error",
     message |-> <<"Search failed: ", e>>,
     count |-> 0,
     results |-> <<>>]

\* search_properties answering a failure with the no-results body
search_properties_error_as_empty(query, results, e) ==
    IF e # "none" \/ results = <<>> THEN SearchEmpty
    ELSE SearchFound(query, results)

\* search_properties without its except clause: the exception leaves the tool
search_properties_no_except(query, results, e) ==
    IF e # "none" THEN [raised |-> e]
    ELSE IF results = <<>> THEN SearchEmpty
    ELSE SearchFound(query, results)

search_properties(query, results, e) ==
    IF e # "none" THEN SearchError(e)
    ELSE IF results = <<>> THEN SearchEmpty
    ELSE SearchFound(query, results)

\* get_property_summary: the three texts it can return; a found summary has
\* one line per listing, numbered from 1
SummaryEmpty ==
    [text |-> <<"No properties found matching your criteria. ",
                "Try adjusting your search parameters.">>,
     lines |-> <<>>]

SummaryFound(results) ==
    [text |-> <<"Found ">> \o IntToStr(Len(results)) \o <<" matching properties:">>,
     lines |-> [i \in DOMAIN results |-> <<i, results[i]>>]]

SummaryError(e) ==
    [text |-> <<"Error searching properties: ", e>>,
     lines |-> <<>>]

\* get_property_summary answering a failure with the no-results text
get_property_summary_error_as_empty(results, e) ==
    IF e # "none" \/ results = <<>> THEN SummaryEmpty
    ELSE SummaryFound(results)

get_property_summary(results, e) ==
    IF e # "none" THEN SummaryError(e)
    ELSE IF results = <<>> THEN SummaryEmpty
    ELSE SummaryFound(results)

\* -------------------------------------------------------------- pipeline
\* a pipeline that goes from the store query straight to truncation
after_find_no_rank(cands) == IF cands = <<>> THEN "returned" ELSE "ranked"

\* PropertySearchPipeline.search after find: `if not candidates: return []`,
\* otherwise on to step 3
after_find(cands) == IF cands = <<>> THEN "returned" ELSE "filtered"

\* an except clause that falls back to the unranked candidates
search_except_fallback(e, cands) == [raised |-> FALSE, value |-> cands]

\* PropertySearchPipeline.search, `except Exception as e: ...; raise`:
\* whatever a step raises leaves search as an exception, with no value.
search_except(e, cands) == [raised |-> TRUE, value |-> <<>>]

\* ------------------------------------------------- search agent executor
\* dict.get(key, default), the dict held as a record
Get(d, key, default) == IF key \in DOMAIN d THEN d[key] ELSE default

\* exceptions a pipeline step can raise
PipelineErrors == {"StoreError", "AttributeError", "Bm25Error", "EncodeError"}

\* result lists the bodies sent to the executor carry: the first n
\* listings (the executor reads the count and prints the listings in the
\* order it is given)
ResultLists == {[i \in 1..n |-> i] : n \in 1..MaxListings}

\* the JSON bodies search_properties returns
ToolBodies ==
    {SearchEmpty} \cup {SearchError(e) : e \in PipelineErrors}
                  \cup {SearchFound(q, r) : q \in UserMessages, r \in ResultLists}

\* what session.call_tool did: raised, returned no content, returned a
\* text that is not JSON, or returned the JSON text of a body
ToolResponses ==
    {[k |-> x, body |-> Pending] : x \in {"raise", "nocontent", "notjson"}}
        \cup {[k |-> "json", body |-> b] : b \in ToolBodies}

\* the dict call_tool returns when the call could not be made
CallFailed(e) == [error |-> e, status |-> "failed"]

\* MCPHelpers.call_tool: session is whether connector.sessions holds the
\* server; every failure is returned as a dict, none is raised
call_tool(session, response) ==
    IF ~session THEN CallFailed("MCP server 'property-search' not available")
    ELSE IF response.k = "raise" THEN CallFailed("session.call_tool raised")
    ELSE IF response.k = "notjson" THEN CallFailed("JSONDecodeError")
    ELSE IF response.k = "nocontent" THEN CallFailed("No content in tool response")
    ELSE response.body

\* _search_properties_via_mcp, `except Exception`
SearchViaMcpError ==
    [status |-> "error",
     message |-> <<"Error searching properties: ", "UpdateError">>,
     count |-> 0,
     results |-> <<>>]

\* properties[:5]
ShownMax == 5

\* a task message: its kind and what it carries
Msg(kind, message, count, shown) ==
    [kind |-> kind, message |-> message, count |-> count, shown |-> shown]

\* SearchAgentExecutor._format_search_results
format_search_results(sr) ==
    LET status == Get(sr, "status", "error")
    IN  IF status = "error"
        THEN Msg("search_failed", Get(sr, "message", <<"Unknown error">>), 0, <<>>)
        ELSE LET count == Get(sr, "count", 0)
                 properties == Get(sr, "results", <<>>)
             IN  IF count = 0
                 THEN Msg("no_properties_found", <<>>, 0, <<>>)
                 ELSE Msg("found", <<>>, count,
                          SubSeq(properties, 1,
                                 IF Len(properties) < ShownMax
                                 THEN Len(properties) ELSE ShownMax))

\* execute, step 3: the search result is a failure
IsSearchError(sr) == Get(sr, "status", "none") = "error"

\* updater.update_status(state, message)
Update(state, msg) == [state |-> state, msg |-> msg]

Working(kind) == Update("working", Msg(kind, <<>>, 0, <<>>))

\* tasks the executor runs execute for, at the same time
ExecTasks == {"t1", "t2"}

\* self.mcp_connector = None, and MCPConnector(config_file=...) as task t
\* made it: a connector whose sessions are still empty
NoConnector == [loading |-> "none", st |-> "unset"]
NewConnector(t) == [loading |-> t, st |-> "down"]

\* the executor at rest, before its first execute
ExecIdle ==
    /\ ex_initialized = FALSE
    /\ mcp_connector = NoConnector
    /\ ex_pc = [t \in ExecTasks |-> "idle"]
    /\ search_result = [t \in ExecTasks |-> Pending]
    /\ updates = [t \in ExecTasks |-> <<>>]
    /\ ex_raised = [t \in ExecTasks |-> FALSE]
    /\ cancel_result = [t \in ExecTasks |-> "none"]

\* the update of execute's except clause
Failed(e) == Update("failed", Msg("execute_failed", <<e>>, 0, <<>>))

\* execute's except clause for task t, ups the updates sent so far: failed
\* is sent (unless that update_status raises as well, which leaves execute
\* as the new exception with nothing sent) and the exception is re-raised
Except(t, e, ups) ==
    /\ \/ updates' = [updates EXCEPT ![t] = Append(ups, Failed(e))]
       \/ updates' = [updates EXCEPT ![t] = ups]
    /\ ex_raised' = [ex_raised EXCEPT ![t] = TRUE]
    /\ ex_pc' = [ex_pc EXCEPT ![t] = "ended"]

\* execute from the start of its try block to its next await:
\* _initialize_mcp tests self.mcp_connector.  With none yet it awaits the
\* "Initializing" update; with a connector, set by this or another task,
\* initialisation is skipped and "Analyzing" sent.  An update_status that
\* raises, like every exception in the try block, goes to the except
\* clause.
EnterTry(t) ==
    /\ IF mcp_connector = NoConnector
       THEN /\ ex_pc' = [ex_pc EXCEPT ![t] = "announcing"]
            /\ UNCHANGED <<updates, ex_raised>>
       ELSE \/ /\ updates' = [updates EXCEPT ![t] = <<Working("analyzing")>>]
               /\ ex_pc' = [ex_pc EXCEPT ![t] = "searching"]
               /\ UNCHANGED ex_raised
            \/ Except(t, "UpdateError", <<>>)
    /\ UNCHANGED mcp_connector

\* -------------------------------------------------- MongoDBFilter.__init__
\* the text and numeric indexes _ensure_indexes asks for
DesiredTextFields == {"address", "title"}
SearchTextIndex == TextIndex("search_text_index", DesiredTextFields)
RentPriceIndex == RentIndex("rent_price_1")

\* index sets a collection may hold before a filter is constructed: none
\* but _id_, the two indexes an earlier construction built, or a text index
\* somebody else built over the title alone
InitialIndexes ==
    {{IdIndex},
     {IdIndex, SearchTextIndex, RentPriceIndex},
     {IdIndex, TextIndex("title_text", {"title"})}}

\* how a command sent to the server ends: it succeeds, it raises
\* OperationFailure (printed and swallowed by __init__), or it raises
\* another error (AutoReconnect, ServerSelectionTimeoutError), which leaves
\* the constructor
CommandOutcomes == {"ok", "OperationFailure", "ConnectionError"}

\* `typ == "text"` for some (field, typ) of the key
IsTextKey(key) == \E j \in DOMAIN key : key[j][2] = "text"

\* [field for field, typ in key if typ == "text"], as a set
TextKeyFields(key) == {key[j][1] : j \in {n \in DOMAIN key : key[n][2] = "text"}}

\* the text index _ensure_indexes detects in `existing`; a collection
\* holds at most one
existing_text_index(existing) ==
    LET text_ixs == {x \in existing : IsTextKey(x.key)}
    IN  IF text_ixs = {} THEN {} ELSE {CHOOSE x \in text_ixs : TRUE}

\* set(desired_text_fields) != set(existing_text_fields)
TextDiffers(existing) ==
    \E old \in existing_text_index(existing) :
        DesiredTextFields # TextKeyFields(old.key)

\* numeric_index_exists, looked up in the information read at the start
numeric_index_exists(existing) ==
    \E x \in existing : x.key = << <<"rent_price", "1">> >>

\* the command _ensure_indexes sends after the text index is settled:
\* create_index for rent_price, or none
AfterText(existing) ==
    IF numeric_index_exists(existing) THEN "built" ELSE "create_rent"

\* the command _ensure_indexes sends first after reading `existing`
AfterRead(existing) ==
    IF existing_text_index(existing) = {} THEN "create_text"
    ELSE IF TextDiffers(existing) THEN "drop"
    ELSE AfterText(existing)

\* the collection as a constructed filter without failures leaves it
IdxIdle ==
    /\ indexes = {IdIndex, SearchTextIndex, RentPriceIndex}
    /\ index_cmds = <<>>
    /\ ix_pc = "none"
    /\ ix_existing = {}

\* ---------------------------------------------------- concurrent requests
\* the requests the server may be serving at once
Requests == {"r1", "r2"}

\* the local values of a request that has not started
IdleReq ==
    [pc |-> "idle", top_k |-> 1, user_query |-> <<>>,
     parsed_message |-> NoMessage,
     candidates |-> <<>>, emb_scores |-> <<>>, bm25_scores |-> <<>>,
     ranked_candidates |-> <<>>, final_results |-> <<>>, exc |-> "none",
     outcome |-> Pending]

ConcIdle == reqs = [r \in Requests |-> IdleReq]

\* no call of a reranker function under way
NoCall == [k |-> "none"]

FnIdle ==
    /\ rr_in = NoCall
    /\ rr_out = NoCall
    /\ listing = NoCall
    /\ listing_text = NoCall

\* ------------------------------------------------- streaming executors
StreamAgents == {"search", "alert"}

\* tasks the streaming executors run execute for, at the same time
StreamTasks == {"t1", "t2"}

\* no execute of a streaming executor under way, neither executor created
StreamIdle ==
    /\ st_initialized = [a \in StreamAgents |-> FALSE]
    /\ st_agent = [t \in StreamTasks |-> "search"]
    /\ st_pc = [t \in StreamTasks |-> "idle"]
    /\ st_events = [t \in StreamTasks |-> 0]
    /\ st_updates = [t \in StreamTasks |-> <<>>]
    /\ st_raised = [t \in StreamTasks |-> FALSE]

\* ------------------------------------------------------ session memory
\* Python's None where a str is expected
PyNone == "<None>"

SessionIds == {"s1", "s2"}

\* the callers of the store: request handlers of the host process and of
\* other processes sharing the Redis server
Procs == {"p1", "p2"}

IdleProc ==
    [pc |-> "idle", op |-> "-", sid |-> "s1", signal |-> "-",
     agent_name |-> PyNone, increment_turn |-> FALSE, exists |-> FALSE,
     memory |-> [active_agent |-> PyNone, task_state |-> PyNone,
                 task_context |-> "empty", turn_count |-> 0]]

\* no session saved, no caller in a store call
SessIdle ==
    /\ redis = <<>>
    /\ procs = [p \in Procs |-> IdleProc]

\* nothing inserted, no call of the listing tool made
ListIdle ==
    /\ inserted = <<>>
    /\ lc_call = NoCall

\* no alert saved, no listing processed
AlertIdle ==
    /\ alerts = <<>>
    /\ mon = NoCall

\* the other services at rest
SvcIdle == StreamIdle /\ SessIdle /\ ListIdle /\ AlertIdle

\* every component but the search tools at rest
AuxIdle == ExecIdle /\ IdxIdle /\ ConcIdle /\ FnIdle /\ SvcIdle

\* ---------------------------------------------------------------- actions
\* the pipeline as constructed, no request under way
CoreInit ==
    /\ store = [i \in ListingIds |-> i]
    /\ alpha \in Weights
    /\ beta \in Weights
    /\ pc = "idle"
    /\ tool = "search_properties"
    /\ top_k = 1
    /\ parsed_message = NoMessage
    /\ mongo_query = NoQuery
    /\ candidates = <<>>
    /\ emb_scores = <<>>
    /\ bm25_scores = <<>>
    /\ final_scores = <<>>
    /\ ranked_candidates = <<>>
    /\ final_results = <<>>
    /\ exc = "none"
    /\ encode_calls = 0
    /\ bm25_built = FALSE
    /\ outcome = Pending
    /\ interp_failed = FALSE
    /\ user_query = <<>>

Init == CoreInit /\ AuxIdle

\* the same with one choice of weights; the services that do not rank
\* start here
SvcInit == Init /\ alpha = 1 /\ beta = 1

\* A tool is called and the pipeline parses the user message (step 1).
Extract ==
    /\ pc = "idle"
    /\ \E t \in Tools, k \in 1..MaxTopK :
          /\ tool' = t
          /\ top_k' = k
    /\ \E user_message \in UserMessages :
          /\ user_query' = user_message
          /\ \/ /\ parsed_message' \in ParsedMessages
                /\ interp_failed' = FALSE
             \/ /\ parsed_message' = extract_fallback(user_message)
                /\ interp_failed' = TRUE
    /\ pc' = "parsed"
    /\ mongo_query' = NoQuery
    /\ candidates' = <<>>
    /\ emb_scores' = <<>>
    /\ bm25_scores' = <<>>
    /\ final_scores' = <<>>
    /\ ranked_candidates' = <<>>
    /\ final_results' = <<>>
    /\ exc' = "none"
    /\ encode_calls' = 0
    /\ bm25_built' = FALSE
    /\ outcome' = Pending
    /\ UNCHANGED <<store, alpha, beta>>
    /\ UNCHANGED auxVars

\* Step 2: build the query and run it; no candidates returns [] at once.
\* The store call may raise (unreachable server, failed query).
Filter ==
    /\ pc = "parsed"
    /\ mongo_query' = build_query(parsed_message)
    /\ \/ LET r == search_except("StoreError", <<>>)
          IN  /\ exc' = "StoreError"
              /\ pc' = IF r.raised THEN "raised" ELSE "returned"
              /\ final_results' = r.value
              /\ UNCHANGED candidates
       \/ /\ mongo_query'.text.set => TextFields # {}
          /\ candidates' \in Find(mongo_query', store)
          /\ pc' = after_find(candidates')
          /\ UNCHANGED <<exc, final_results>>
    /\ UNCHANGED <<store, alpha, beta, tool, top_k, parsed_message, emb_scores,
                   bm25_scores, final_scores, ranked_candidates,
                   encode_calls, bm25_built, outcome, interp_failed, user_query>>
    /\ UNCHANGED auxVars

\* Step 3: rerank when there are preferences and more than one candidate.
\* The embedder and BM25Okapi are libraries: the scores they return are
\* inputs, and either may raise.
Rank ==
    /\ pc = "filtered"
    /\ LET rag == DictGetDefault(parsed_message.rag_content)
       IN  IF rag.k = "none"
           THEN \* None has no strip()
                LET r == search_except("AttributeError", candidates)
                IN  /\ exc' = "AttributeError"
                    /\ pc' = IF r.raised THEN "raised" ELSE "returned"
                    /\ final_results' = r.value
                    /\ UNCHANGED <<emb_scores, bm25_scores, final_scores,
                                   ranked_candidates, encode_calls, bm25_built>>
           ELSE IF Strip(rag.s) # <<>> /\ Len(candidates) > 1
           THEN \/ LET r == search_except("Bm25Error", candidates)
                   IN  /\ exc' = "Bm25Error"
                       /\ pc' = IF r.raised THEN "raised" ELSE "returned"
                       /\ final_results' = r.value
                       /\ UNCHANGED <<emb_scores, bm25_scores, final_scores,
                                      ranked_candidates, encode_calls,
                                      bm25_built>>
                \/ LET r == search_except("EncodeError", candidates)
                   IN  /\ exc' = "EncodeError"
                       /\ pc' = IF r.raised THEN "raised" ELSE "returned"
                       /\ final_results' = r.value
                       /\ bm25_built' = TRUE
                       /\ encode_calls' \in 1..(Len(candidates) + 1)
                       /\ UNCHANGED <<emb_scores, bm25_scores, final_scores,
                                      ranked_candidates>>
                \/ \E emb \in [DOMAIN candidates -> SemVals],
                      bm25 \in [DOMAIN candidates -> LexVals] :
                      /\ emb_scores' = emb
                      /\ bm25_scores' = bm25
                      /\ final_scores' = FinalScores(alpha, beta, emb, bm25)
                      /\ ranked_candidates' = rerank(final_scores', candidates)
                      /\ bm25_built' = TRUE
                      /\ encode_calls' = Len(candidates) + 1
                      /\ pc' = "ranked"
                      /\ UNCHANGED <<exc, final_results>>
           ELSE /\ ranked_candidates' = candidates
                /\ pc' = "ranked"
                /\ UNCHANGED <<emb_scores, bm25_scores, final_scores,
                               encode_calls, bm25_built, exc, final_results>>
    /\ UNCHANGED <<store, alpha, beta, tool, top_k, parsed_message, mongo_query,
                   candidates, outcome, interp_failed, user_query>>
    /\ UNCHANGED auxVars

\* Step 4: keep the first top_k.
TopK ==
    /\ pc = "ranked"
    /\ final_results' = Truncate(ranked_candidates, top_k)
    /\ pc' = "returned"
    /\ UNCHANGED <<store, alpha, beta, tool, top_k, parsed_message, mongo_query,
                   candidates, emb_scores, bm25_scores, final_scores,
                   ranked_candidates, exc, encode_calls, bm25_built, outcome,
                   interp_failed, user_query>>
    /\ UNCHANGED auxVars

\* The tool formats what the pipeline returned or raised.
Respond ==
    /\ pc \in {"returned", "raised"}
    /\ LET e == IF pc = "raised" THEN exc ELSE "none"
       IN  outcome' = IF tool = "search_properties"
                      THEN search_properties(user_query, final_results, e)
                      ELSE get_property_summary(final_results, e)
    /\ pc' = "done"
    /\ UNCHANGED <<store, alpha, beta, tool, top_k, parsed_message, mongo_query,
                   candidates, emb_scores, bm25_scores, final_scores,
                   ranked_candidates, final_results, exc, encode_calls,
                   bm25_built, interp_failed, user_query>>
    /\ UNCHANGED auxVars

\* The response is delivered; the server waits for the next call.  Nothing
\* of the request is kept (the pipeline holds no per-request state).
Return ==
    /\ pc = "done"
    /\ pc' = "idle"
    /\ tool' = "search_properties"
    /\ top_k' = 1
    /\ parsed_message' = NoMessage
    /\ mongo_query' = NoQuery
    /\ candidates' = <<>>
    /\ emb_scores' = <<>>
    /\ bm25_scores' = <<>>
    /\ final_scores' = <<>>
    /\ ranked_candidates' = <<>>
    /\ final_results' = <<>>
    /\ exc' = "none"
    /\ encode_calls' = 0
    /\ bm25_built' = FALSE
    /\ outcome' = Pending
    /\ interp_failed' = FALSE
    /\ user_query' = <<>>
    /\ UNCHANGED <<store, alpha, beta>>
    /\ UNCHANGED auxVars

Next == Extract \/ Filter \/ Rank \/ TopK \/ Respond \/ Return

Spec == Init /\ [][Next]_vars

\* The steps of a request that wait for nothing outside the process: the
\* rerank step when it calls no model, the truncation, the tool's response
\* and the return.  They run to completion once started (the pipeline is
\* synchronous code).  collection.find (Filter) and embedder.encode (the
\* reranking branches of Rank) are called without a timeout and return
\* when the store or the model answers, on which the code has no hold.

\* search reranks: there are preferences and more than one candidate, so
\* rerank builds BM25Okapi and then calls embedder.encode
Reranks ==
    LET rag == DictGetDefault(parsed_message.rag_content)
    IN  rag.k # "none" /\ Strip(rag.s) # <<>> /\ Len(candidates) > 1

RankWithoutModel == ~Reranks /\ Rank

LiveSpec ==
    /\ Init
    /\ [][Next]_vars
    /\ WF_vars(RankWithoutModel)
    /\ WF_vars(TopK)
    /\ WF_vars(Respond)
    /\ WF_vars(Return)

\* the same with a store and a model that always answer
AnsweringSpec == LiveSpec /\ WF_vars(Filter) /\ WF_vars(Rank)

\* ================================================= MongoDBFilter.__init__
\* A server process starts and builds its pipeline, which constructs the
\* filter: _ensure_indexes reads the collection's indexes and sends index
\* commands, each a blocking call to the server.  Between two of them the
\* requests of a process that already serves go on.  An OperationFailure
\* is printed and swallowed, and the constructor completes; any other
\* error leaves the constructor, and the starting process has no pipeline.

\* the constructor goes on to its next command
ConstructGoes(next) ==
    /\ ix_pc' = next
    /\ pc' = IF next = "built" /\ pc = "new" THEN "idle" ELSE pc
    /\ ix_existing' = IF next = "built" THEN {} ELSE ix_existing

\* the command raised: OperationFailure ends _ensure_indexes and the
\* constructor completes, another error leaves the constructor
ConstructStops(e) ==
    /\ ix_pc' = IF e = "OperationFailure" THEN "built" ELSE "raised"
    /\ pc' = IF e = "OperationFailure" /\ pc = "new" THEN "idle" ELSE pc
    /\ ix_existing' = {}
    /\ UNCHANGED <<indexes, index_cmds>>

ConstructFrame ==
    /\ UNCHANGED <<store, alpha, beta, tool, top_k, parsed_message, mongo_query,
                   candidates, emb_scores, bm25_scores, final_scores,
                   ranked_candidates, final_results, exc, encode_calls,
                   bm25_built, outcome, interp_failed, user_query>>
    /\ UNCHANGED <<execVars, concVars, fnVars, svcVars>>

\* MongoDBFilter() is called: existing = collection.index_information()
Construct ==
    /\ ix_pc \in {"none", "built", "raised"}
    /\ \E e \in CommandOutcomes :
          LET next == IF e = "ok" THEN AfterRead(indexes)
                      ELSE IF e = "OperationFailure" THEN "built"
                      ELSE "raised"
          IN  /\ ix_pc' = next
              /\ pc' = IF next = "built" /\ pc = "new" THEN "idle" ELSE pc
              /\ ix_existing' = IF next \in {"built", "raised"} THEN {}
                                ELSE indexes
              /\ index_cmds' = <<>>
              /\ UNCHANGED indexes
    /\ ConstructFrame

\* collection.drop_index(existing_text_index); the server refuses an index
\* it does not hold
ConstructDrop ==
    /\ ix_pc = "drop"
    /\ \E e \in CommandOutcomes :
          IF e = "ok"
          THEN \E old \in existing_text_index(ix_existing) :
                  /\ \E x \in indexes : x.name = old.name
                  /\ indexes' = {x \in indexes : x.name # old.name}
                  /\ index_cmds' = Append(index_cmds, "drop_index")
                  /\ ConstructGoes("create_text")
          ELSE ConstructStops(e)
    /\ ConstructFrame

\* collection.create_index([(field, "text") ...], name="search_text_index");
\* the server refuses a second text index
ConstructCreateText ==
    /\ ix_pc = "create_text"
    /\ \E e \in CommandOutcomes :
          IF e = "ok"
          THEN /\ \A x \in indexes : IsTextKey(x.key) => x = SearchTextIndex
               /\ indexes' = indexes \cup {SearchTextIndex}
               /\ index_cmds' = Append(index_cmds, "create_index text")
               /\ ConstructGoes(AfterText(ix_existing))
          ELSE ConstructStops(e)
    /\ ConstructFrame

\* collection.create_index([("rent_price", 1)], name="rent_price_1")
ConstructCreateRent ==
    /\ ix_pc = "create_rent"
    /\ \E e \in CommandOutcomes :
          IF e = "ok"
          THEN /\ indexes' = indexes \cup {RentPriceIndex}
               /\ index_cmds' = Append(index_cmds, "create_index rent_price")
               /\ ConstructGoes("built")
          ELSE ConstructStops(e)
    /\ ConstructFrame

\* a collection in any of its initial index states, no pipeline built yet
IndexInit ==
    /\ store = [i \in ListingIds |-> i]
    /\ alpha = 1
    /\ beta = 1
    /\ pc = "new"
    /\ tool = "search_properties"
    /\ top_k = 1
    /\ parsed_message = NoMessage
    /\ mongo_query = NoQuery
    /\ candidates = <<>>
    /\ emb_scores = <<>>
    /\ bm25_scores = <<>>
    /\ final_scores = <<>>
    /\ ranked_candidates = <<>>
    /\ final_results = <<>>
    /\ exc = "none"
    /\ encode_calls = 0
    /\ bm25_built = FALSE
    /\ outcome = Pending
    /\ interp_failed = FALSE
    /\ user_query = <<>>
    /\ ExecIdle
    /\ ConcIdle
    /\ FnIdle
    /\ SvcIdle
    /\ indexes \in InitialIndexes
    /\ index_cmds = <<>>
    /\ ix_pc = "none"
    /\ ix_existing = {}

IndexNext ==
    \/ Construct \/ ConstructDrop \/ ConstructCreateText \/ ConstructCreateRent
    \/ Extract \/ Filter \/ Rank \/ TopK \/ Respond \/ Return

\* filter constructions and search requests in any sequence
IndexSpec == IndexInit /\ [][IndexNext]_vars

\* ====================================== concurrent requests, one pipeline
\* The server holds one PropertySearchPipeline; each request runs search on
\* its own stack.  What the requests share is the store, the collection's
\* indexes, and the reranker with its embedder and weights.

\* calls the concurrent requests are drawn from, each a user_query and the
\* message the interpreter made of it: one that finds the two cheapest
\* listings and reranks them, one that finds none, one whose preference
\* text is null
ConcMessages ==
    {[user_query |-> <<"x">>,
      parsed_message |-> [location |-> Text(<<"X", ",", "y">>), price |-> IntPrice(3),
                          rag_content |-> Text(<<"x">>)]],
     [user_query |-> <<" ">>,
      parsed_message |-> [location |-> None, price |-> IntPrice(1),
                          rag_content |-> Text(<<"x">>)]],
     [user_query |-> <<"x">>,
      parsed_message |-> [location |-> Text(<<"X", ",", "y">>), price |-> IntPrice(3),
                          rag_content |-> None]]}

\* a reranker that keeps the weights it last used swapped
rerank_self_swaps(a, b) == <<b, a>>

\* the attributes of the shared HybridReranker after a rerank call: rerank
\* reads self.alpha and self.beta and assigns nothing on self
rerank_self(a, b) == <<a, b>>

\* request r arrives (step 1), asking for one result or for the most
CExtract(r) ==
    /\ reqs[r].pc = "idle"
    /\ \E k \in {1, MaxTopK}, call \in ConcMessages :
          reqs' = [reqs EXCEPT ![r] =
                      [IdleReq EXCEPT !.pc = "parsed", !.top_k = k,
                                      !.user_query = call.user_query,
                                      !.parsed_message = call.parsed_message]]
    /\ UNCHANGED <<coreVars, execVars, idxVars, fnVars, svcVars>>

\* step 2 of request r
CFilter(r) ==
    /\ reqs[r].pc = "parsed"
    /\ LET q == build_query(reqs[r].parsed_message)
       IN  \/ LET x == search_except("StoreError", <<>>)
              IN  reqs' = [reqs EXCEPT ![r].exc = "StoreError",
                                       ![r].pc = IF x.raised THEN "raised"
                                                 ELSE "returned",
                                       ![r].final_results = x.value]
           \/ /\ q.text.set => TextFields # {}
              /\ \E found \in Find(q, store) :
                    reqs' = [reqs EXCEPT ![r].candidates = found,
                                         ![r].pc = after_find(found)]
    /\ UNCHANGED <<coreVars, execVars, idxVars, fnVars, svcVars>>

\* step 3 of request r, with the shared reranker
CRank(r) ==
    /\ reqs[r].pc = "filtered"
    /\ LET rag   == DictGetDefault(reqs[r].parsed_message.rag_content)
           cands == reqs[r].candidates
           fails(e) ==
               LET x == search_except(e, cands)
               IN  [reqs EXCEPT ![r].exc = e,
                                ![r].pc = IF x.raised THEN "raised" ELSE "returned",
                                ![r].final_results = x.value]
       IN  IF rag.k = "none"
           THEN /\ reqs' = fails("AttributeError")
                /\ UNCHANGED <<alpha, beta>>
           ELSE IF Strip(rag.s) # <<>> /\ Len(cands) > 1
           THEN \/ /\ reqs' = fails("Bm25Error")
                   /\ UNCHANGED <<alpha, beta>>
                \/ /\ reqs' = fails("EncodeError")
                   /\ UNCHANGED <<alpha, beta>>
                \/ \E emb \in [DOMAIN cands -> SemVals],
                      bm25 \in [DOMAIN cands -> LexVals] :
                      /\ reqs' = [reqs EXCEPT
                             ![r].emb_scores = emb,
                             ![r].bm25_scores = bm25,
                             ![r].ranked_candidates =
                                 rerank(FinalScores(alpha, beta, emb, bm25), cands),
                             ![r].pc = "ranked"]
                      /\ alpha' = rerank_self(alpha, beta)[1]
                      /\ beta' = rerank_self(alpha, beta)[2]
           ELSE /\ reqs' = [reqs EXCEPT ![r].ranked_candidates = cands,
                                        ![r].pc = "ranked"]
                /\ UNCHANGED <<alpha, beta>>
    /\ UNCHANGED <<store, pc, tool, top_k, parsed_message, mongo_query,
                   candidates, emb_scores, bm25_scores, final_scores,
                   ranked_candidates, final_results, exc, encode_calls,
                   bm25_built, outcome, interp_failed, user_query>>
    /\ UNCHANGED <<execVars, idxVars, fnVars, svcVars>>

\* step 4 of request r
CTopK(r) ==
    /\ reqs[r].pc = "ranked"
    /\ reqs' = [reqs EXCEPT
                  ![r].final_results =
                      Truncate(reqs[r].ranked_candidates, reqs[r].top_k),
                  ![r].pc = "returned"]
    /\ UNCHANGED <<coreVars, execVars, idxVars, fnVars, svcVars>>

\* search_properties formats what search returned or raised for request r
CRespond(r) ==
    /\ reqs[r].pc \in {"returned", "raised"}
    /\ LET e == IF reqs[r].pc = "raised" THEN reqs[r].exc ELSE "none"
       IN  reqs' = [reqs EXCEPT
                      ![r].outcome = search_properties(reqs[r].user_query,
                                                     reqs[r].final_results, e),
                      ![r].pc = "done"]
    /\ UNCHANGED <<coreVars, execVars, idxVars, fnVars, svcVars>>

\* the response of request r is delivered; nothing of it is kept
CReturn(r) ==
    /\ reqs[r].pc = "done"
    /\ reqs' = [reqs EXCEPT ![r] = IdleReq]
    /\ UNCHANGED <<coreVars, execVars, idxVars, fnVars, svcVars>>

ConcNext ==
    \E r \in Requests :
        CExtract(r) \/ CFilter(r) \/ CRank(r) \/ CTopK(r) \/ CRespond(r)
            \/ CReturn(r)

\* the steps of the requests interleaved in any order
ConcSpec == Init /\ [][ConcNext]_vars

\* ================================================ rerank under two alphas
\* scaled cosine similarities for the comparison of two rerank calls: a
\* negative, a zero and a positive one
RerankSemVals == {-1, 0, 1}

\* arguments of two rerank calls that differ in alpha alone: the candidates
\* (the first n listings), the scores the embedder and BM25 give them, the
\* two alphas (the second the larger) and beta
RerankInputs ==
    UNION {[k : {"pair"}, candidates : {[i \in 1..n |-> i]},
            emb : [1..n -> RerankSemVals], bm25 : [1..n -> LexVals],
            alpha1 : Weights, alpha2 : Weights, beta : Weights]
           : n \in 2..MaxListings}

RerankInit ==
    /\ CoreInit
    /\ alpha = 1
    /\ beta = 1
    /\ ExecIdle /\ IdxIdle /\ ConcIdle /\ SvcIdle
    /\ rr_in \in {x \in RerankInputs : x.alpha1 < x.alpha2}
    /\ rr_out = NoCall
    /\ listing = NoCall
    /\ listing_text = NoCall

\* rerank is called with alpha1 and with alpha2
RerankBoth ==
    /\ rr_in # NoCall
    /\ rr_out = NoCall
    /\ rr_out' =
          [k |-> "orders",
           first  |-> rerank(FinalScores(rr_in.alpha1, rr_in.beta, rr_in.emb,
                                         rr_in.bm25), rr_in.candidates),
           second |-> rerank(FinalScores(rr_in.alpha2, rr_in.beta, rr_in.emb,
                                         rr_in.bm25), rr_in.candidates)]
    /\ UNCHANGED <<rr_in, listing, listing_text>>
    /\ UNCHANGED <<coreVars, execVars, idxVars, concVars, svcVars>>

RerankSpec == RerankInit /\ [][RerankBoth]_vars

\* ===================================================== build_listing_text
\* A listing document, as far as build_listing_text reads it.  Every field
\* may be left out of the document (k = "missing") or be null (k = "none");
\* bedroom and bathroom are ints, the amenity lists are lists of str, and
\* rental_terms is a dict whose values are str or null.
OptInt(n) == [k |-> "int", n |-> n]
NoInt(kind) == [k |-> kind, n |-> 0]

OptList(items) == [k |-> "list", items |-> items]
NoList(kind) == [k |-> kind, items |-> <<>>]

Amenities(appliances, utilities_included) ==
    [k |-> "dict", appliances |-> appliances,
     utilities_included |-> utilities_included]
NoAmenities(kind) ==
    [k |-> kind, appliances |-> NoList("missing"),
     utilities_included |-> NoList("missing")]

RentalTerms(vals) == [k |-> "dict", vals |-> vals]
NoRentalTerms(kind) == [k |-> kind, vals |-> <<>>]

Absent == {"missing", "none"}

ListValues == {NoList(a) : a \in Absent} \cup {OptList(<<>>), OptList(<< <<"x">>, <<"y">> >>)}

ListingDocs ==
    [k : {"doc"},
     title : {Missing, None, Text(<<"x">>)},
     description : {Missing, None, Text(<<"y", " ", "x">>)},
     bedroom : {NoInt(a) : a \in Absent} \cup {OptInt(2)},
     bathroom : {NoInt(a) : a \in Absent} \cup {OptInt(1)},
     amenities : {NoAmenities(a) : a \in Absent}
                     \cup {Amenities(p, u) : p \in ListValues, u \in ListValues},
     rental_terms : {NoRentalTerms(a) : a \in Absent}
                     \cup {RentalTerms(v) : v \in {<<>>, <<Text(<<"x">>)>>,
                                                   <<Text(<<"x">>), None>>}}]

NoneChars == <<"N", "o", "n", "e">>

\* str(v), and v inside an f-string, for an optional str
StrOfText(v) == IF v.k = "none" THEN NoneChars ELSE v.s

\* the same for an optional int
StrOfInt(v) == IF v.k = "none" THEN NoneChars ELSE IntToStr(v.n)

\* " ".join(items)
RECURSIVE JoinSpace(_)
JoinSpace(items) ==
    IF items = <<>> THEN <<>>
    ELSE IF Len(items) = 1 THEN items[1]
    ELSE items[1] \o <<" ">> \o JoinSpace(Tail(items))

BedroomChars == <<" ", "b", "e", "d", "r", "o", "o", "m", " ">>
BathroomChars == <<" ", "b", "a", "t", "h", "r", "o", "o", "m">>

Built(s) == [k |-> "str", s |-> s]
Raised(e) == [k |-> "raised", e |-> e]

\* HybridReranker.build_listing_text.  c.get(key, default) gives the
\* default for a key that is left out only: a null title or count is
\* formatted as None, a null amenities or rental_terms has no get()/values()
\* (AttributeError), and join() of a null list raises TypeError.
build_listing_text(c) ==
    LET title       == IF c.title.k = "missing" THEN Text(<<>>) ELSE c.title
        description == IF c.description.k = "missing" THEN Text(<<>>)
                       ELSE c.description
        bedroom     == IF c.bedroom.k = "missing" THEN <<>> ELSE StrOfInt(c.bedroom)
        bathroom    == IF c.bathroom.k = "missing" THEN <<>> ELSE StrOfInt(c.bathroom)
        bed_bath    == bedroom \o BedroomChars \o bathroom \o BathroomChars
        amenities   == IF c.amenities.k = "missing"
                       THEN Amenities(NoList("missing"), NoList("missing"))
                       ELSE c.amenities
        app_list    == IF amenities.appliances.k = "missing" THEN OptList(<<>>)
                       ELSE amenities.appliances
        util_list   == IF amenities.utilities_included.k = "missing"
                       THEN OptList(<<>>)
                       ELSE amenities.utilities_included
        terms       == IF c.rental_terms.k = "missing" THEN RentalTerms(<<>>)
                       ELSE c.rental_terms
        term_strs   == [i \in DOMAIN terms.vals |-> StrOfText(terms.vals[i])]
    IN  IF amenities.k = "none" THEN Raised("AttributeError")
        ELSE IF app_list.k = "none" THEN Raised("TypeError")
        ELSE IF util_list.k = "none" THEN Raised("TypeError")
        ELSE IF terms.k = "none" THEN Raised("AttributeError")
        ELSE Built(StrOfText(title) \o <<" ">> \o StrOfText(description)
                   \o <<" ">> \o bed_bath
                   \o <<" ">> \o JoinSpace(app_list.items)
                   \o <<" ">> \o JoinSpace(util_list.items)
                   \o <<" ">> \o JoinSpace(term_strs))

TextInit ==
    /\ CoreInit
    /\ alpha = 1
    /\ beta = 1
    /\ ExecIdle /\ IdxIdle /\ ConcIdle /\ SvcIdle
    /\ rr_in = NoCall
    /\ rr_out = NoCall
    /\ listing \in ListingDocs
    /\ listing_text = NoCall

\* build_listing_text is called on the listing
BuildListingText ==
    /\ listing # NoCall
    /\ listing_text = NoCall
    /\ listing_text' = build_listing_text(listing)
    /\ UNCHANGED <<rr_in, rr_out, listing>>
    /\ UNCHANGED <<coreVars, execVars, idxVars, concVars, svcVars>>

TextSpec == TextInit /\ [][BuildListingText]_vars

\* ============================================= SearchAgentExecutor.execute
\* execute up to the search: the connector is created by the first call
\* (servers that cannot be reached are skipped, their session is missing),
\* then "Analyzing your requirements..." is sent.  Creating the connector
\* may raise; execute's except clause reports failed and re-raises.
\* The A2A request handler runs execute once per task on the one executor
\* object; the calls are coroutines that give way at each await.  What they
\* share is self._initialized and self.mcp_connector.

\* execute between its initialisation and its try block.  A request that
\* carries its task (context.current_task) enters the try block with no
\* await in between; for a new request the task is made and execute awaits
\* event_queue.enqueue_event(task), where the other tasks run.
TaskOrNew(t) ==
    \/ EnterTry(t)
    \/ /\ ex_pc' = [ex_pc EXCEPT ![t] = "enqueueing"]
       /\ UNCHANGED <<mcp_connector, updates, ex_raised>>

\* execute, called for task t, up to its first await: not yet initialized,
\* it awaits self.create(); otherwise it goes on to its task.
ExecBegin(t) ==
    /\ ex_pc[t] = "idle"
    /\ IF ex_initialized
       THEN TaskOrNew(t)
       ELSE /\ ex_pc' = [ex_pc EXCEPT ![t] = "creating"]
            /\ UNCHANGED <<mcp_connector, updates, ex_raised>>
    /\ cancel_result' = [cancel_result EXCEPT ![t] = "none"]
    /\ UNCHANGED <<ex_initialized, search_result>>
    /\ UNCHANGED nonExecVars

\* self.create() is over: _initialized is set and execute goes on to its
\* task, or create raised and so does execute, the task untouched
ExecCreated(t) ==
    /\ ex_pc[t] = "creating"
    /\ \/ /\ ex_initialized' = TRUE
          /\ TaskOrNew(t)
       \/ /\ ex_raised' = [ex_raised EXCEPT ![t] = TRUE]
          /\ ex_pc' = [ex_pc EXCEPT ![t] = "ended"]
          /\ UNCHANGED <<ex_initialized, mcp_connector, updates>>
    /\ UNCHANGED <<search_result, cancel_result>>
    /\ UNCHANGED nonExecVars

\* enqueue_event(task) is over and execute enters its try block, where it
\* tests the connector as it is by now; or enqueue_event raised, outside
\* the try block: execute raises and nothing is sent
ExecEnqueued(t) ==
    /\ ex_pc[t] = "enqueueing"
    /\ \/ EnterTry(t)
       \/ /\ ex_raised' = [ex_raised EXCEPT ![t] = TRUE]
          /\ ex_pc' = [ex_pc EXCEPT ![t] = "ended"]
          /\ UNCHANGED <<mcp_connector, updates>>
    /\ UNCHANGED <<ex_initialized, search_result, cancel_result>>
    /\ UNCHANGED nonExecVars

\* The "Initializing" update is over.  The executor makes a connector and
\* assigns it to self.mcp_connector, replacing the one another task may
\* have assigned in the meantime, and awaits its get_tools; or the update
\* raised, or MCPConnector() did.
ExecAnnounce(t) ==
    /\ ex_pc[t] = "announcing"
    /\ \/ /\ updates' = [updates EXCEPT ![t] = Append(@, Working("initializing"))]
          /\ mcp_connector' = NewConnector(t)
          /\ ex_pc' = [ex_pc EXCEPT ![t] = "initializing"]
          /\ UNCHANGED ex_raised
       \/ /\ Except(t, "InitError", Append(updates[t], Working("initializing")))
          /\ UNCHANGED mcp_connector
       \/ /\ Except(t, "UpdateError", updates[t])
          /\ UNCHANGED mcp_connector
    /\ UNCHANGED <<ex_initialized, search_result, cancel_result>>
    /\ UNCHANGED nonExecVars

\* get_tools() of the connector task t made stores the session of
\* "property-search" (self.sessions[name] = session) and goes on to the
\* servers after it.  The executor sees it when the connector is still
\* the one it holds.
ExecConnect(t) ==
    /\ ex_pc[t] = "initializing"
    /\ mcp_connector = NewConnector(t)
    /\ mcp_connector' = [mcp_connector EXCEPT !.st = "up"]
    /\ UNCHANGED <<ex_initialized, ex_pc, search_result, updates, ex_raised,
                   cancel_result>>
    /\ UNCHANGED nonExecVars

\* get_tools() of the connector task t made is over.  It returned, with
\* or without a session for "property-search" (a server that cannot be
\* reached is skipped), and "Analyzing" is sent; or it raised before it
\* made any session (list_servers), and the except clause reports failed
\* and re-raises.  Either way self.mcp_connector stays set.
ExecInit(t) ==
    /\ ex_pc[t] = "initializing"
    /\ \/ /\ updates' = [updates EXCEPT ![t] = Append(@, Working("analyzing"))]
          /\ ex_pc' = [ex_pc EXCEPT ![t] = "searching"]
          /\ UNCHANGED ex_raised
       \/ Except(t, "UpdateError", updates[t])
       \/ /\ mcp_connector.loading = t => mcp_connector.st = "down"
          /\ Except(t, "InitError", updates[t])
    /\ mcp_connector' = IF mcp_connector.loading = t
                        THEN [mcp_connector EXCEPT !.loading = "none"]
                        ELSE mcp_connector
    /\ UNCHANGED <<ex_initialized, search_result, cancel_result>>
    /\ UNCHANGED nonExecVars

\* _search_properties_via_mcp up to the tool call: "Searching properties"
\* is sent and MCPHelpers.call_tool looks the session up; without one it
\* returns its failure dict at once, with one it awaits session.call_tool.
\* A failure of the status update is answered with an error dict.
ExecSearch(t) ==
    /\ ex_pc[t] = "searching"
    /\ \/ /\ updates' = [updates EXCEPT ![t] = Append(@, Working("searching"))]
          /\ IF mcp_connector.st = "up"
             THEN /\ ex_pc' = [ex_pc EXCEPT ![t] = "calling"]
                  /\ UNCHANGED search_result
             ELSE /\ search_result' = [search_result EXCEPT ![t] =
                         call_tool(FALSE, [k |-> "raise", body |-> Pending])]
                  /\ ex_pc' = [ex_pc EXCEPT ![t] = "checking"]
       \/ /\ search_result' = [search_result EXCEPT ![t] = SearchViaMcpError]
          /\ ex_pc' = [ex_pc EXCEPT ![t] = "checking"]
          /\ UNCHANGED updates
    /\ UNCHANGED <<ex_initialized, mcp_connector, ex_raised, cancel_result>>
    /\ UNCHANGED nonExecVars

\* session.call_tool is over: call_tool returns the body or a failure dict
ExecCall(t) ==
    /\ ex_pc[t] = "calling"
    /\ \E response \in ToolResponses :
          search_result' = [search_result EXCEPT ![t] = call_tool(TRUE, response)]
    /\ ex_pc' = [ex_pc EXCEPT ![t] = "checking"]
    /\ UNCHANGED <<ex_initialized, mcp_connector, updates, ex_raised,
                   cancel_result>>
    /\ UNCHANGED nonExecVars

\* execute, step 3: a result with status "error" ends the task as failed;
\* any other result goes on to formatting.
ExecCheck(t) ==
    /\ ex_pc[t] = "checking"
    /\ \/ /\ IF IsSearchError(search_result[t])
             THEN /\ updates' = [updates EXCEPT ![t] =
                         Append(@, Update("failed",
                                Msg("search_error",
                                    Get(search_result[t], "message",
                                        <<"Unknown error occurred">>), 0, <<>>)))]
                  /\ ex_pc' = [ex_pc EXCEPT ![t] = "ended"]
             ELSE /\ updates' = [updates EXCEPT ![t] =
                         Append(@, Working("formatting"))]
                  /\ ex_pc' = [ex_pc EXCEPT ![t] = "formatting"]
          /\ UNCHANGED ex_raised
       \/ Except(t, "UpdateError", updates[t])
    /\ UNCHANGED <<ex_initialized, mcp_connector, search_result, cancel_result>>
    /\ UNCHANGED nonExecVars

\* execute, steps 4 and 5: the result is formatted and sent as completed,
\* and execute sleeps 0.1 s before it returns.  Formatting a found listing
\* may raise (a listing whose amenities is null), and so may the update.
ExecFormat(t) ==
    /\ ex_pc[t] = "formatting"
    /\ LET formatted_output == format_search_results(search_result[t])
       IN  \/ /\ updates' = [updates EXCEPT ![t] =
                     Append(@, Update("completed", formatted_output))]
              /\ ex_pc' = [ex_pc EXCEPT ![t] = "ended"]
              /\ UNCHANGED ex_raised
           \/ /\ formatted_output.kind = "found"
              /\ Except(t, "FormatError", updates[t])
           \/ Except(t, "UpdateError", updates[t])
    /\ UNCHANGED <<ex_initialized, mcp_connector, search_result, cancel_result>>
    /\ UNCHANGED nonExecVars

\* execute has returned or raised; the task's slot is free for the next
\* task.  The executor keeps its connector and its _initialized flag.
ExecReturn(t) ==
    /\ ex_pc[t] = "ended"
    /\ ex_pc' = [ex_pc EXCEPT ![t] = "idle"]
    /\ search_result' = [search_result EXCEPT ![t] = Pending]
    /\ updates' = [updates EXCEPT ![t] = <<>>]
    /\ ex_raised' = [ex_raised EXCEPT ![t] = FALSE]
    /\ cancel_result' = [cancel_result EXCEPT ![t] = "none"]
    /\ UNCHANGED <<ex_initialized, mcp_connector>>
    /\ UNCHANGED nonExecVars

\* cancel, whenever it is called for a task (execute under way, over, or
\* never started): it raises ServerError(UnsupportedOperationError) and
\* touches neither the task nor the executor; execute goes on.
ExecCancel(t) ==
    /\ cancel_result' = [cancel_result EXCEPT ![t] = "UnsupportedOperationError"]
    /\ UNCHANGED <<ex_initialized, mcp_connector, ex_pc, search_result, updates,
                   ex_raised>>
    /\ UNCHANGED nonExecVars

\* create() called on the executor by its server before serving
\* (__main__): _initialized is set with no execute under way
ExecCreate ==
    /\ ~ex_initialized
    /\ ex_initialized' = TRUE
    /\ UNCHANGED <<mcp_connector, ex_pc, search_result, updates, ex_raised,
                   cancel_result>>
    /\ UNCHANGED nonExecVars

\* the steps of execute for task t
ExecRun(t) ==
    \/ ExecBegin(t) \/ ExecCreated(t) \/ ExecEnqueued(t) \/ ExecAnnounce(t)
    \/ ExecConnect(t) \/ ExecInit(t) \/ ExecSearch(t) \/ ExecCall(t) \/ ExecCheck(t)
    \/ ExecFormat(t) \/ ExecReturn(t)

\* the steps of task t
ExecStep(t) == ExecRun(t) \/ ExecCancel(t)

\* the steps of the tasks interleaved in any order
ExecNext == ExecCreate \/ \E t \in ExecTasks : ExecStep(t)

ExecSpec == SvcInit /\ [][ExecNext]_vars

\* ================================== streaming executors: execute
\* SearchAgentExecutor (agents/search) and AlertAgentExecutor (agents/alert)
\* hand the query to their agent and turn the items of its stream into
\* task status updates.
MaxEvents == 2

\* items an agent's stream can yield: dicts with is_task_complete and
\* updates or content, any of which may be missing
StreamItems ==
    { [is_task_complete |-> TRUE, content |-> "answer"],
      [is_task_complete |-> TRUE, content |-> ""],
      [is_task_complete |-> TRUE],
      [is_task_complete |-> FALSE, updates |-> "progress"],
      [is_task_complete |-> FALSE],
      [updates |-> "progress"] }

\* the default texts of the two executors
DefaultUpdates(agent) ==
    IF agent = "search" THEN "Searching for properties..."
    ELSE "Processing your alert request..."

DefaultContent(agent) ==
    IF agent = "search" THEN "No results found" ELSE "Alert operation completed"

FailedText(agent) ==
    IF agent = "search" THEN "Search failed" ELSE "Alert operation failed"

\* the status update execute sends for one item of the stream
item_update(agent, item) ==
    LET is_task_complete == Get(item, "is_task_complete", FALSE)
    IN  IF ~is_task_complete
        THEN Update("working", Get(item, "updates", DefaultUpdates(agent)))
        ELSE Update("completed", Get(item, "content", DefaultContent(agent)))

\* where execute's loop stands after an item: a complete item sends
\* completed and breaks out of the loop
after_item_no_break(item) == "streaming"

after_item(item) ==
    IF Get(item, "is_task_complete", FALSE) THEN "ended" ELSE "streaming"

\* the state of the task as its updates leave it (submitted when the task
\* was enqueued and no update followed)
TaskStateOf(ups) == IF ups = <<>> THEN "submitted" ELSE ups[Len(ups)].state

\* The request handler runs execute once per task on the executor object
\* of its server; the calls are coroutines that give way at each await and
\* share self._initialized.

\* execute, called for a new task on one of the executors, up to its first
\* await: an executor not yet initialized awaits self.create() first,
\* outside the try block; otherwise the loop over the agent's stream starts.
StreamBegin(t) ==
    /\ st_pc[t] = "idle"
    /\ \E agent \in StreamAgents :
          /\ st_agent' = [st_agent EXCEPT ![t] = agent]
          /\ st_pc' = [st_pc EXCEPT ![t] =
                IF st_initialized[agent] THEN "streaming" ELSE "creating"]
    /\ st_events' = [st_events EXCEPT ![t] = 0]
    /\ st_updates' = [st_updates EXCEPT ![t] = <<>>]
    /\ UNCHANGED <<st_initialized, st_raised>>
    /\ UNCHANGED nonStreamVars

\* self.create() is over: agent.create() answered, _initialized is set and
\* the loop starts; or it raised, and so does execute, with no update
StreamCreated(t) ==
    /\ st_pc[t] = "creating"
    /\ \/ /\ st_initialized' = [st_initialized EXCEPT ![st_agent[t]] = TRUE]
          /\ st_pc' = [st_pc EXCEPT ![t] = "streaming"]
          /\ UNCHANGED st_raised
       \/ /\ st_raised' = [st_raised EXCEPT ![t] = TRUE]
          /\ st_pc' = [st_pc EXCEPT ![t] = "ended"]
          /\ UNCHANGED st_initialized
    /\ UNCHANGED <<st_agent, st_events, st_updates>>
    /\ UNCHANGED nonStreamVars

\* create() called on the executor by its server before serving
\* (__main__): _initialized is set with no execute under way
StreamCreate(agent) ==
    /\ ~st_initialized[agent]
    /\ st_initialized' = [st_initialized EXCEPT ![agent] = TRUE]
    /\ UNCHANGED <<st_agent, st_pc, st_events, st_updates, st_raised>>
    /\ UNCHANGED nonStreamVars

\* execute's except clause for task t: failed is sent (unless that
\* update_status raises as well, which leaves execute as the new exception
\* with nothing sent) and the exception is re-raised
StreamExcept(t) ==
    /\ \/ st_updates' = [st_updates EXCEPT ![t] =
                Append(@, Update("failed", FailedText(st_agent[t])))]
       \/ UNCHANGED st_updates
    /\ st_raised' = [st_raised EXCEPT ![t] = TRUE]
    /\ st_pc' = [st_pc EXCEPT ![t] = "ended"]

\* the stream yields an item: its update is sent, after a complete item
\* execute sleeps 0.1 s and leaves the loop; or the update raises
StreamItem(t) ==
    /\ st_pc[t] = "streaming"
    /\ st_events[t] < MaxEvents
    /\ \E item \in StreamItems :
          \/ /\ st_updates' = [st_updates EXCEPT ![t] =
                    Append(@, item_update(st_agent[t], item))]
             /\ st_pc' = [st_pc EXCEPT ![t] = after_item(item)]
             /\ UNCHANGED st_raised
          \/ StreamExcept(t)
    /\ st_events' = [st_events EXCEPT ![t] = @ + 1]
    /\ UNCHANGED <<st_initialized, st_agent>>
    /\ UNCHANGED nonStreamVars

\* the stream raises
StreamRaise(t) ==
    /\ st_pc[t] = "streaming"
    /\ StreamExcept(t)
    /\ UNCHANGED <<st_initialized, st_agent, st_events>>
    /\ UNCHANGED nonStreamVars

\* the stream is exhausted: the loop ends and execute returns
StreamEnd(t) ==
    /\ st_pc[t] = "streaming"
    /\ st_pc' = [st_pc EXCEPT ![t] = "ended"]
    /\ UNCHANGED <<st_initialized, st_agent, st_events, st_updates, st_raised>>
    /\ UNCHANGED nonStreamVars

\* execute has returned or raised; the task's slot is free for the next
\* task
StreamReturn(t) ==
    /\ st_pc[t] = "ended"
    /\ st_pc' = [st_pc EXCEPT ![t] = "idle"]
    /\ st_agent' = [st_agent EXCEPT ![t] = "search"]
    /\ st_events' = [st_events EXCEPT ![t] = 0]
    /\ st_updates' = [st_updates EXCEPT ![t] = <<>>]
    /\ st_raised' = [st_raised EXCEPT ![t] = FALSE]
    /\ UNCHANGED st_initialized
    /\ UNCHANGED nonStreamVars

\* the steps of task t
StreamStep(t) ==
    \/ StreamBegin(t) \/ StreamCreated(t) \/ StreamItem(t) \/ StreamRaise(t)
    \/ StreamEnd(t) \/ StreamReturn(t)

\* the steps of the tasks interleaved in any order
StreamNext ==
    \/ \E agent \in StreamAgents : StreamCreate(agent)
    \/ \E t \in StreamTasks : StreamStep(t)

StreamSpec == SvcInit /\ [][StreamNext]_vars

\* The executors of the three agent servers, each serving two tasks at a
\* time.  The servers are separate processes that share nothing, so a
\* behaviour follows the tasks of the search agent's executor or those of
\* the streaming executors.
SearchExecutorNext == StreamIdle /\ ExecNext

StreamExecutorsNext == ExecIdle /\ StreamNext

ExecutorsSpec ==
    SvcInit /\ [][SearchExecutorNext \/ StreamExecutorsNext]_vars

\* ============================ ProceduralMemoryStore and SessionManager
\* turn counts are followed up to MaxTurns
MaxTurns == 1

AgentNames == {"", "search", "alert"}

\* ProceduralMemory(session_id, user_id): the fields the store changes
\* (task_context is "empty" for {} and "ctx" for a dict with entries)
NewMemory ==
    [active_agent |-> PyNone, task_state |-> PyNone, task_context |-> "empty",
     turn_count |-> 0]

\* ProceduralMemoryStore.get_session: the saved memory, or None
HasSession(r, session_id) == session_id \in DOMAIN r

\* ProceduralMemoryStore.get_active_agent
get_active_agent(r, session_id) ==
    IF ~HasSession(r, session_id) THEN PyNone ELSE r[session_id].active_agent

\* SessionManager.should_route_to_orchestrator
should_route_to_orchestrator(r, session_id) ==
    LET active_agent == get_active_agent(r, session_id)
    IN  IF active_agent = PyNone THEN <<TRUE, PyNone>>
        ELSE <<FALSE, active_agent>>

\* redis.setex(key, ttl, data)
Setex(r, session_id, memory) ==
    [k \in DOMAIN r \cup {session_id} |->
        IF k = session_id THEN memory ELSE r[k]]

\* redis.delete(key), and the lapse of the key's TTL
Del(r, session_id) == [k \in DOMAIN r \ {session_id} |-> r[k]]

\* the arguments of an update_session call
Args(active_agent, task_state, task_context, increment_turn) ==
    [active_agent |-> active_agent, task_state |-> task_state,
     task_context |-> task_context, increment_turn |-> increment_turn]

\* update_session between get_session and _save: the fields it sets
update_memory(memory, a) ==
    [active_agent |->
        IF a.active_agent # PyNone
        THEN (IF a.active_agent # "" THEN a.active_agent ELSE PyNone)
        ELSE memory.active_agent,
     task_state |->
        IF a.task_state # PyNone
        THEN (IF a.task_state # "" THEN a.task_state ELSE PyNone)
        ELSE memory.task_state,
     task_context |->
        IF a.task_context # PyNone THEN a.task_context
        ELSE memory.task_context,
     turn_count |->
        IF a.increment_turn THEN memory.turn_count + 1
        ELSE memory.turn_count]

\* ProceduralMemoryStore.clear_active_agent's call of update_session
clear_active_agent_args == Args("", "", "empty", FALSE)

\* ProceduralMemoryStore.set_active_agent's call of update_session
\* (task_context or {})
set_active_agent_args(agent_name, task_state, task_context) ==
    Args(agent_name, task_state,
         IF task_context = PyNone THEN "empty" ELSE task_context, TRUE)

\* response.updated_procedural_memory: None, {} or a dict, whose task_state
\* and task_context may be missing
UpdatedMemories ==
    { [k |-> "none"], [k |-> "dict", d |-> <<>>],
      [k |-> "dict", d |-> [task_state |-> "searching"]],
      [k |-> "dict", d |-> [task_state |-> "searching", task_context |-> "ctx"]] }

HandoffSignal == {"CONTINUE", "COMPLETE", "ESCALATE"}

\* SessionManager.process_agent_response's call of the store
process_agent_response_args_keep_agent(agent_name, handoff_signal, upd) ==
    clear_active_agent_args

process_agent_response_args(agent_name, handoff_signal, upd) ==
    IF handoff_signal = "COMPLETE" THEN clear_active_agent_args
    ELSE IF handoff_signal = "CONTINUE"
    THEN IF upd.k = "dict" /\ upd.d # <<>>
         THEN Args(agent_name, Get(upd.d, "task_state", PyNone),
                   Get(upd.d, "task_context", "empty"), TRUE)
         ELSE Args(agent_name, PyNone, PyNone, TRUE)
    ELSE clear_active_agent_args

\* the calls a caller can make: the operation, what the claims need of its
\* arguments, and the update_session arguments it comes down to
Call(op, signal, agent_name, a) ==
    [op |-> op, signal |-> signal, agent_name |-> agent_name, a |-> a]

UpdateSessionCalls ==
    { Call("update_session", "-", active_agent,
           Args(active_agent, task_state, task_context, increment_turn)) :
        active_agent \in AgentNames \cup {PyNone},
        task_state \in {PyNone, "", "started"},
        task_context \in {PyNone, "ctx"},
        increment_turn \in BOOLEAN }

Calls ==
    UpdateSessionCalls
    \cup { Call("set_active_agent", "-", agent_name,
                set_active_agent_args(agent_name, "started", task_context)) :
             agent_name \in AgentNames, task_context \in {PyNone, "ctx"} }
    \cup { Call("clear_active_agent", "-", PyNone, clear_active_agent_args) }
    \cup { Call("process_agent_response", handoff_signal, agent_name,
                process_agent_response_args(agent_name, handoff_signal, upd)) :
             handoff_signal \in HandoffSignal, agent_name \in AgentNames,
             upd \in UpdatedMemories }

\* create_session (SessionManager.create_session, get_or_create_session)
CreateSession(session_id) ==
    /\ redis' = Setex(redis, session_id, NewMemory)
    /\ UNCHANGED procs
    /\ UNCHANGED nonSessVars

\* delete_session (SessionManager.end_session)
DeleteSession(session_id) ==
    /\ HasSession(redis, session_id)
    /\ redis' = Del(redis, session_id)
    /\ UNCHANGED procs
    /\ UNCHANGED nonSessVars

\* the key's TTL lapses
Expire(session_id) ==
    /\ HasSession(redis, session_id)
    /\ redis' = Del(redis, session_id)
    /\ UNCHANGED procs
    /\ UNCHANGED nonSessVars

\* where update_session stands after get_session: a missing session
\* returns None at once
after_get_session_upsert(found) == "read"

after_get_session(found) == IF found THEN "read" ELSE "returned"

\* update_session up to _save: get_session, return None for a missing
\* session, else set the fields on the loaded memory
UpdateRead(p, session_id, call) ==
    /\ procs[p].pc = "idle"
    /\ procs' = [procs EXCEPT ![p] =
          [pc |-> after_get_session(HasSession(redis, session_id)),
           op |-> call.op, sid |-> session_id, signal |-> call.signal,
           agent_name |-> call.agent_name,
           increment_turn |-> call.a.increment_turn,
           exists |-> HasSession(redis, session_id),
           memory |-> IF HasSession(redis, session_id)
                      THEN update_memory(redis[session_id], call.a)
                      ELSE IdleProc.memory]]
    /\ UNCHANGED redis
    /\ UNCHANGED nonSessVars

\* update_session's _save: the memory is written back under the key
UpdateSave(p) ==
    /\ procs[p].pc = "read"
    /\ redis' = Setex(redis, procs[p].sid, procs[p].memory)
    /\ procs' = [procs EXCEPT ![p].pc = "returned",
                              ![p].memory = IdleProc.memory]
    /\ UNCHANGED nonSessVars

\* the caller has its answer and is free for the next call
Finish(p) ==
    /\ procs[p].pc = "returned"
    /\ procs' = [procs EXCEPT ![p] = IdleProc]
    /\ UNCHANGED redis
    /\ UNCHANGED nonSessVars

\* The methods are synchronous: a process runs its calls one after the
\* other.  Here the host process is the only caller; sessions may still be
\* deleted or lapse while it is inside a call.
Host == "p1"

SessNext ==
    \/ \E session_id \in SessionIds :
          CreateSession(session_id) \/ DeleteSession(session_id)
              \/ Expire(session_id)
    \/ \E p \in {Host} :
          \/ \E session_id \in SessionIds, call \in Calls :
                /\ (call.a.increment_turn /\ HasSession(redis, session_id))
                       => redis[session_id].turn_count < MaxTurns
                /\ UpdateRead(p, session_id, call)
          \/ UpdateSave(p)
          \/ Finish(p)

SessSpec == SvcInit /\ [][SessNext]_vars

\* ============================================ parse_and_confirm_listing
\* documents inserted are followed up to MaxInserted
MaxInserted == 2

\* what parser.extract can return: the failure dict, the model's JSON for
\* the listing (with or without an address, and with whatever other keys
\* the model adds), or JSON that is not an object
ParseFailed == [key \in {"Parsed Text"} |-> PyNone]

ParsedListings ==
    { [k |-> "dict", d |-> ParseFailed, ok |-> FALSE],
      [k |-> "dict", d |-> [address |-> "12 Elm St, Troy"], ok |-> TRUE],
      [k |-> "dict", d |-> [address |-> PyNone], ok |-> TRUE],
      [k |-> "dict",
       d |-> [key \in {"Parsed Text", "address"} |->
                 IF key = "address" THEN "12 Elm St, Troy" ELSE "raw text"],
       ok |-> TRUE],
      [k |-> "list", d |-> <<>>, ok |-> TRUE] }

\* user_confirmation values, as characters
Confirmations ==
    { <<"p", "e", "n", "d", "i", "n", "g">>, <<"y", "e", "s">>,
      <<"Y">>, <<" ", "y", " ">>, <<"s", "a", "v", "e">>,
      <<"c", "o", "n", "f", "i", "r", "m">>,
      <<"a", "p", "p", "r", "o", "v", "e">>,
      <<"n", "o">>, <<"o", "k">>, <<>> }

ShowWords ==
    { <<"p", "e", "n", "d", "i", "n", "g">>, <<"p", "a", "r", "s", "e">>,
      <<"s", "h", "o", "w">> }

AffirmativeWords ==
    { <<"y", "e", "s">>, <<"y">>, <<"c", "o", "n", "f", "i", "r", "m">>,
      <<"a", "p", "p", "r", "o", "v", "e">>, <<"s", "a", "v", "e">> }

NegativeWords ==
    { <<"n", "o">>, <<"n">>, <<"r", "e", "j", "e", "c", "t">>,
      <<"c", "h", "a", "n", "g", "e">>, <<"m", "o", "d", "i", "f", "y">>,
      <<"e", "d", "i", "t">> }

\* user_confirmation.lower().strip()
confirmation_lower(user_confirmation) == Strip(Lower(user_confirmation))

\* the test the tool makes of the parser's result
parse_failed(d) == Get(d, "Parsed Text", PyNone) = PyNone

\* datetime.now().strftime("%Y-%m-%d") on the days the tools are called
Dates == {"2025-01-01", "2025-01-02"}

\* the metadata both tools set on the listing before they insert it, and
\* the _id insert_one gives it
WithMetadata(d, today, oid) ==
    [key \in DOMAIN d \cup {"source", "last_updated", "_id"} |->
        IF key = "source" THEN "user_created"
        ELSE IF key = "last_updated" THEN today
        ELSE IF key = "_id" THEN oid
        ELSE d[key]]

\* the kind of reply and the document inserted, if any
Reply(kind, doc) == [kind |-> kind, insert |-> doc]

NoDoc == [k |-> "none"]

\* the lines after insert_one, shared by the two tools: a null address
\* fails the ',' test, the except clause answers and the document stays
\* inserted
after_insert(listing_data) ==
    IF Get(listing_data, "address", "") = PyNone
    THEN Reply("exception", [k |-> "doc", d |-> listing_data])
    ELSE Reply("created", [k |-> "doc", d |-> listing_data])

\* parse_and_confirm_listing.  insert_ok: collection.insert_one succeeds;
\* today: the date of the call; oid: the _id of the inserted document.
\* A result that is not a dict has no get(): the except clause answers.
parse_and_confirm_listing(parsed_data, user_confirmation, insert_ok, today, oid) ==
    IF parsed_data.k # "dict" THEN Reply("exception", NoDoc)
    ELSE IF parse_failed(parsed_data.d) THEN Reply("parse_error", NoDoc)
    ELSE IF confirmation_lower(user_confirmation) \in ShowWords
    THEN Reply("summary", NoDoc)
    ELSE IF confirmation_lower(user_confirmation) \in AffirmativeWords
    THEN IF ~insert_ok THEN Reply("exception", NoDoc)
         ELSE after_insert(WithMetadata(parsed_data.d, today, oid))
    ELSE IF confirmation_lower(user_confirmation) \in NegativeWords
    THEN Reply("changes", NoDoc)
    ELSE Reply("invalid", NoDoc)

\* what save_listing is given: text that is not JSON, JSON that is not an
\* object, or the JSON of a listing
ListingJsons ==
    { [k |-> "invalid", d |-> <<>>],
      [k |-> "list", d |-> <<>>],
      [k |-> "dict", d |-> [address |-> "12 Elm St, Troy"]],
      [k |-> "dict", d |-> [address |-> PyNone]] }

\* save_listing: json.loads, the metadata, insert_one.  A JSON list takes
\* no string key: the except clause answers before the insert.
save_listing(parsed_listing_json, insert_ok, today, oid) ==
    IF parsed_listing_json.k = "invalid" THEN Reply("invalid_json", NoDoc)
    ELSE IF parsed_listing_json.k # "dict" THEN Reply("exception", NoDoc)
    ELSE IF ~insert_ok THEN Reply("exception", NoDoc)
    ELSE after_insert(WithMetadata(parsed_listing_json.d, today, oid))

\* the store takes the document a tool inserted; inserts are followed up
\* to MaxInserted documents
Insert(r) ==
    /\ r.insert # NoDoc => Len(inserted) < MaxInserted
    /\ inserted' = IF r.insert = NoDoc THEN inserted
                   ELSE Append(inserted, r.insert.d)

\* one call of parse_and_confirm_listing
ParseAndConfirm ==
    /\ \E parsed_data \in ParsedListings, user_confirmation \in Confirmations,
          insert_ok \in BOOLEAN, today \in Dates :
          LET r == parse_and_confirm_listing(parsed_data, user_confirmation,
                                             insert_ok, today,
                                             Len(inserted) + 1)
          IN  /\ Insert(r)
              /\ lc_call' = [k |-> "call", parsed_data |-> parsed_data,
                             user_confirmation |-> user_confirmation,
                             insert_ok |-> insert_ok, reply |-> r.kind,
                             before |-> Len(inserted)]
    /\ UNCHANGED nonListVars

\* one call of save_listing
SaveListing ==
    /\ \E parsed_listing_json \in ListingJsons, insert_ok \in BOOLEAN,
          today \in Dates :
          LET r == save_listing(parsed_listing_json, insert_ok, today,
                                Len(inserted) + 1)
          IN  /\ Insert(r)
              /\ lc_call' = [k |-> "save",
                             parsed_listing_json |-> parsed_listing_json,
                             insert_ok |-> insert_ok, reply |-> r.kind,
                             before |-> Len(inserted)]
    /\ UNCHANGED nonListVars

ListNext == ParseAndConfirm \/ SaveListing

ListSpec == SvcInit /\ [][ListNext]_vars

\* ======================================================= ListingMonitor
\* alerts are followed up to MaxAlerts
MaxAlerts == 2

\* create_alert stores the stripped location, or None for a missing or
\* empty one, and the price the parser gave (an int or None)
AlertLocations == {None, Text(<<"X">>)}

AlertPrices == {NoInt("none"), OptInt(1)}

AlertDoc(status, location, price) ==
    [status |-> status, location |-> location, price |-> price]

\* new listings: the address and the price may be left out or null
NewListings ==
    [address : {Missing, None, Text(<<"X", " ", "y">>), Text(<<"Y">>)},
     price : {NoInt("missing"), NoInt("none")}
                \cup {OptInt(n) : n \in 1..MaxPrice}]

\* alerts_collection.find({"status": "active"}): positions of the active
\* alerts, in order
RECURSIVE ActiveFrom(_, _)
ActiveFrom(docs, i) ==
    IF i > Len(docs) THEN <<>>
    ELSE (IF docs[i].status = "active" THEN <<i>> ELSE <<>>)
         \o ActiveFrom(docs, i + 1)

ActiveAlerts(docs) == ActiveFrom(docs, 1)

\* the tests of find_matching_alerts's loop for one alert
location_matches(alert_location, listing_address) ==
    IF alert_location.k = "none" THEN TRUE
    ELSE Contains(Lower(listing_address.s), Lower(alert_location.s))

price_matches(alert_price, listing_price) ==
    IF alert_price.k = "none" THEN TRUE
    ELSE alert_price.n >= listing_price.n

\* ListingMonitor.find_matching_alerts on the documents the collection
\* holds when the find runs: the positions of the alerts returned.  A null
\* address has no split() and a null new_listing price cannot be compared
\* with an alert's price: the except clause returns [] for either, as for
\* a failed find.
find_matching_alerts(new_listing, docs, find_ok) ==
    LET listing_address == IF new_listing.address.k = "missing" THEN Text(<<>>)
                           ELSE new_listing.address
        listing_price == IF new_listing.price.k = "missing" THEN OptInt(0)
                         ELSE new_listing.price
        all_alerts == ActiveAlerts(docs)
    IN  IF listing_address.k = "none" THEN <<>>
        ELSE IF ~find_ok THEN <<>>
        ELSE IF /\ listing_price.k = "none"
                /\ \E j \in DOMAIN all_alerts : docs[all_alerts[j]].price.k = "int"
        THEN <<>>
        ELSE SelectSeq(all_alerts,
                       LAMBDA i :
                           /\ location_matches(docs[i].location, listing_address)
                           /\ price_matches(docs[i].price, listing_price))

\* send_notification's result: the message formats the listing's price and
\* the alert's price with a thousands separator, which a null price does
\* not take (the except clause returns False); otherwise the mail service
\* decides
SendResults(alert, new_listing) ==
    IF alert.price.k = "none" \/ new_listing.price.k = "none" THEN {FALSE}
    ELSE BOOLEAN

Stats(alerts_checked, matches_found, emails_sent, errors) ==
    [alerts_checked |-> alerts_checked, matches_found |-> matches_found,
     emails_sent |-> emails_sent, errors |-> errors]

\* The tools of the alert server, the alert handler and the monitor share
\* the collection and run in different processes: create_alert,
\* delete_alert and deactivate_alert take effect between any two commands
\* of a process_new_listing call.  Every alert is saved as active; the
\* handler's deactivate_alert is the one writer of another status.

\* create_alert (server.py): an alert is saved as active
CreateAlert ==
    /\ Len(alerts) < MaxAlerts
    /\ \E location \in AlertLocations, price \in AlertPrices :
          alerts' = Append(alerts, AlertDoc("active", location, price))
    /\ UNCHANGED mon
    /\ UNCHANGED nonAlertVars

\* the documents without the i-th
Without(docs, i) == SubSeq(docs, 1, i - 1) \o SubSeq(docs, i + 1, Len(docs))

\* delete_alert (server.py): delete_one removes the alert found by its id
DeleteAlert ==
    /\ \E i \in DOMAIN alerts : alerts' = Without(alerts, i)
    /\ UNCHANGED mon
    /\ UNCHANGED nonAlertVars

\* AlertMongoDBHandler.deactivate_alert, the handler made over the
\* collection of the monitor: update_one sets the status of the alert found
\* by its id to "inactive" and leaves the document in the collection
DeactivateAlert ==
    /\ \E i \in DOMAIN alerts :
          alerts' = [alerts EXCEPT ![i].status = "inactive"]
    /\ UNCHANGED mon
    /\ UNCHANGED nonAlertVars

\* process_new_listing up to the return of find_matching_alerts: seen is
\* the collection as the find read it, matching_alerts the positions in it
\* of the alerts returned, and matches_found is set
ProcessNewListing ==
    /\ mon = NoCall
    /\ \E new_listing \in NewListings, find_ok \in BOOLEAN :
          LET matching_alerts == find_matching_alerts(new_listing, alerts, find_ok)
          IN  mon' = [k |-> "call", pc |-> "counting", listing |-> new_listing,
                      find_ok |-> find_ok, seen |-> alerts,
                      matching_alerts |-> matching_alerts, sent |-> 0,
                      stats |-> Stats(0, Len(matching_alerts), 0, 0)]
    /\ UNCHANGED alerts
    /\ UNCHANGED nonAlertVars

\* count_documents({"status": "active"}) on the collection as it is now.
\* When it raises, the outer except clause adds one error and returns;
\* without matching alerts the call returns the statistics.
MonitorCount ==
    /\ mon # NoCall
    /\ mon.pc = "counting"
    /\ \E count_ok \in BOOLEAN :
          mon' = IF ~count_ok
                 THEN [mon EXCEPT !.stats.errors = @ + 1, !.pc = "returned"]
                 ELSE [mon EXCEPT
                          !.stats.alerts_checked = Len(ActiveAlerts(alerts)),
                          !.pc = IF mon.matching_alerts = <<>> THEN "returned"
                                 ELSE "sending"]
    /\ UNCHANGED alerts
    /\ UNCHANGED nonAlertVars

\* one pass of the notification loop: send_notification for the next
\* matching alert, counted as an email sent or as an error
MonitorSend ==
    /\ mon # NoCall
    /\ mon.pc = "sending"
    /\ LET alert == mon.seen[mon.matching_alerts[mon.sent + 1]]
       IN  \E success \in SendResults(alert, mon.listing) :
              mon' = [mon EXCEPT
                         !.stats.emails_sent = IF success THEN @ + 1 ELSE @,
                         !.stats.errors = IF success THEN @ ELSE @ + 1,
                         !.sent = @ + 1,
                         !.pc = IF mon.sent + 1 = Len(mon.matching_alerts)
                                THEN "returned" ELSE "sending"]
    /\ UNCHANGED alerts
    /\ UNCHANGED nonAlertVars

\* the statistics are returned and the monitor waits for the next listing
MonitorReturn ==
    /\ mon # NoCall
    /\ mon.pc = "returned"
    /\ mon' = NoCall
    /\ UNCHANGED alerts
    /\ UNCHANGED nonAlertVars

AlertNext ==
    \/ CreateAlert
    \/ DeleteAlert
    \/ DeactivateAlert
    \/ ProcessNewListing
    \/ MonitorCount
    \/ MonitorSend
    \/ MonitorReturn

AlertSpec == SvcInit /\ [][AlertNext]_vars

\* ======================================================== claim checking
\* the store query has run and returned
FilterDone == pc \notin {"idle", "parsed"} /\ exc # "StoreError"

\* the rerank step of the pipeline was reached and has ended
RankStepDone ==
    \/ pc = "ranked"
    \/ pc \in {"returned", "done"} /\ exc = "none" /\ candidates # <<>>
    \/ exc \in {"AttributeError", "Bm25Error", "EncodeError"}

\* the reranker sorted the candidates
Reranked == final_scores # <<>>

\* rent <= price, the price taken as the number it is (ip.fd)
RentAtMost(rent, p) == rent * 10 <= p.ip * 10 + p.fd

\* position of a candidate in the candidate list (candidates are distinct)
PosOf(c) == CHOOSE i \in DOMAIN candidates : candidates[i] = c

\* position of candidate c in an order
PosIn(order, c) == CHOOSE i \in DOMAIN order : order[i] = c

\* number of occurrences of c in a sequence
Count(q, c) == Cardinality({i \in DOMAIN q : q[i] = c})

Min(a, b) == IF a < b THEN a ELSE b

IsErrorOutcome ==
    IF tool = "search_properties"
    THEN outcome.status = "error"
    ELSE outcome.text[1] = "Error searching properties: "

IsEmptyOutcome ==
    IF tool = "search_properties" THEN outcome = SearchEmpty
    ELSE outcome = SummaryEmpty

\* ---- C1
\* C1: a listing is among the candidates the filter returns if and only
\* if (the location is absent or the listing's address contains it as a
\* substring, ignoring case) and (the price is absent or rent <= price).
C1_FilterIffSubstring ==
    FilterDone =>
        \A i \in Range(store) :
            (i \in Range(candidates)) <=>
                /\ \/ DictGet(parsed_message.location).k = "none"
                   \/ Contains(Lower(AddressOf(i)),
                               Lower(parsed_message.location.s))
                /\ \/ parsed_message.price.k = "none"
                   \/ RentAtMost(RentOf(i), parsed_message.price)

\* ---- C2
\* C2: when the store query or the ranker raised, the tool returns an error
\* outcome, and that outcome differs from the one returned for zero matches;
\* a search that ran and matched nothing never returns an error outcome.
C2_FailureDistinctFromEmpty ==
    pc = "done" =>
        /\ exc # "none" => IsErrorOutcome /\ ~IsEmptyOutcome
        /\ (exc = "none" /\ candidates = <<>>) => IsEmptyOutcome /\ ~IsErrorOutcome

\* the ranker raised and the tool has answered
C2_Witness ==
    /\ pc = "done"
    /\ exc \in {"StoreError", "EncodeError"}
    /\ IsErrorOutcome

\* ---- C3
\* C3: after a rerank with preferences and two or more candidates the output
\* holds every candidate exactly as often as the input does.
C3_RerankIsPermutation ==
    Reranked =>
        /\ Len(ranked_candidates) = Len(candidates)
        /\ \A c \in Range(candidates) \cup Range(ranked_candidates) :
              Count(ranked_candidates, c) = Count(candidates, c)

\* a rerank that changed the order
C3_Witness ==
    /\ Reranked
    /\ Len(candidates) >= 2
    /\ ranked_candidates # candidates

\* ---- C4
\* C4: the output of rerank is in descending order of
\* alpha * semantic + beta * lexical, and candidates with equal final score
\* keep their input order.
C4_SortedDescendingStable ==
    Reranked =>
        /\ \A i \in DOMAIN candidates :
              final_scores[i] = alpha * emb_scores[i] + beta * bm25_scores[i]
        /\ \A i, j \in DOMAIN ranked_candidates :
              i < j =>
                LET a == PosOf(ranked_candidates[i])
                    b == PosOf(ranked_candidates[j])
                IN  /\ final_scores[a] >= final_scores[b]
                    /\ final_scores[a] = final_scores[b] => a < b

\* a rerank of candidates the store returned in another order than they
\* arrived in, with a tie between two of them: the tie keeps the order of
\* the input, not the order of arrival
C4_Witness ==
    /\ Reranked
    /\ \E i, j \in DOMAIN candidates :
          /\ i < j
          /\ candidates[i] > candidates[j]
          /\ final_scores[i] = final_scores[j]
          /\ PosIn(ranked_candidates, candidates[i])
                < PosIn(ranked_candidates, candidates[j])

\* ---- C5
\* the preference text is a string that is empty or only whitespace
PreferenceBlank ==
    LET rag == DictGetDefault(parsed_message.rag_content)
    IN  rag.k = "str" /\ Strip(rag.s) = <<>>

\* C5 as stated: with at most one candidate, or with an empty or
\* whitespace-only preference text, the rerank step hands back the
\* candidates unchanged and computes no embedding and no lexical index.
C5_ShortCircuitUnchanged ==
    (RankStepDone /\ (Len(candidates) <= 1 \/ PreferenceBlank)) =>
        /\ ranked_candidates = candidates
        /\ encode_calls = 0
        /\ ~bm25_built

\* ---- C6
\* C6: a search that ranked n candidates returns the first min(n, top_k) of
\* the ranked sequence, in rank order, and reports that number.
C6_TopKTruncation ==
    (pc = "done" /\ exc = "none") =>
        LET m == Min(Len(ranked_candidates), top_k)
        IN  IF tool = "search_properties"
            THEN /\ outcome.count = m
                 /\ Len(outcome.results) = m
                 /\ \A i \in 1..m : outcome.results[i] = ranked_candidates[i]
            ELSE /\ Len(outcome.lines) = m
                 /\ \A i \in 1..m : outcome.lines[i] = <<i, ranked_candidates[i]>>

\* more ranked candidates than top_k, cut down to top_k
C6_Witness ==
    /\ pc = "done"
    /\ exc = "none"
    /\ tool = "search_properties"
    /\ Reranked
    /\ Len(ranked_candidates) > top_k
    /\ outcome.count = top_k

\* ---- C7
\* the filter returned no listing and search_properties has answered
NoMatchAnswered ==
    /\ pc = "done"
    /\ exc = "none"
    /\ candidates = <<>>
    /\ tool = "search_properties"

\* C7: zero matches are answered with exactly status "empty", no results
\* and count 0: a status that is neither an error nor the status of a
\* search that found listings.
C7_EmptyStatus ==
    NoMatchAnswered =>
        /\ outcome.status = "empty"
        /\ outcome.results = <<>>
        /\ outcome.count = 0

\* ---- C8
\* rents a listing may have, around every price of the model
RentRange == 0..(10 * MaxPrice + 10)

\* C8 as stated: with a price present the constraint built is exactly
\* rent <= price: it admits a rent iff the rent is at most the price.
C8_ExactInclusiveBound ==
    (FilterDone /\ parsed_message.price.k # "none") =>
        /\ mongo_query.rent_price.set
        /\ \A r \in RentRange :
              (r <= mongo_query.rent_price.lte) <=> RentAtMost(r, parsed_message.price)

\* ---- C9
\* C9 as stated: with the store and the ranker available, no combination
\* of absent fields ends in an error outcome.
C9_AbsentFieldsNeverError ==
    (pc = "done" /\ exc \notin {"StoreError", "Bm25Error", "EncodeError"}) =>
        ~IsErrorOutcome

\* ---- C10
\* C10: when BM25 or the embedder failed, the pipeline returns no list and
\* the tool answers with an error outcome carrying no listing.
C10_RankerFailureIsError ==
    exc \in {"Bm25Error", "EncodeError"} =>
        /\ final_results = <<>>
        /\ pc # "returned"
        /\ pc = "done" =>
              /\ IsErrorOutcome
              /\ IF tool = "search_properties"
                 THEN outcome.results = <<>> /\ outcome.count = 0
                 ELSE outcome.lines = <<>>

\* the embedder failed part-way through a batch and the tool answered
C10_Witness ==
    /\ pc = "done"
    /\ exc = "EncodeError"
    /\ Len(candidates) >= 2
    /\ encode_calls >= 2
    /\ IsErrorOutcome

\* ---- C11
\* C11: when the store call fails, the pipeline does not go on with an
\* empty candidate list (it neither returns [] nor ranks); the request ends
\* in the error outcome of the tool, never in its no-results outcome.
C11_StoreFailureIsError ==
    exc = "StoreError" =>
        /\ pc \in {"raised", "done"}
        /\ final_results = <<>>
        /\ ranked_candidates = <<>>
        /\ pc = "done" => IsErrorOutcome /\ ~IsEmptyOutcome

\* the store failed under the summary tool, for a query that would have
\* matched listings, and the tool answered
C11_Witness ==
    /\ pc = "done"
    /\ exc = "StoreError"
    /\ tool = "get_property_summary"
    /\ Matching(mongo_query, store) # <<>>
    /\ outcome = SummaryError("StoreError")

\* ---- C12
\* the tool call could not be made: call_tool returned its failure dict
CallCouldNotExecute(t) ==
    ex_pc[t] # "idle" /\ "error" \in DOMAIN search_result[t]

\* C12 as stated: when the search tool call could not execute and execute
\* has returned, the task has ended as failed, never as completed with the
\* "No properties found" guidance.
C12_CallFailureEndsFailed ==
    \A t \in ExecTasks :
        (ex_pc[t] = "ended" /\ ~ex_raised[t] /\ CallCouldNotExecute(t)) =>
            /\ updates[t][Len(updates[t])].state = "failed"
            /\ \A i \in DOMAIN updates[t] :
                  ~(updates[t][i].state = "completed"
                    /\ updates[t][i].msg.kind = "no_properties_found")

\* ---- C13
\* C13: whatever failed (the interpreter, the store call, BM25, the
\* embedder, or a null preference text), a request that has ended holds
\* exactly one structured body of its tool (found, no results, or error),
\* an error body when a step raised; no body exists before the end.
C13_NoExceptionEscapes ==
    /\ pc # "done" => outcome = Pending
    /\ pc = "raised" => exc \in PipelineErrors
    /\ pc = "done" =>
          IF tool = "search_properties"
          THEN /\ DOMAIN outcome \in {{"status", "message", "count", "results"},
                                     {"status", "message", "count", "query",
                                      "results"}}
               /\ outcome.status \in {"success", "error"}
               /\ exc # "none" => outcome.status = "error"
          ELSE /\ DOMAIN outcome = {"text", "lines"}
               /\ exc # "none" => outcome.text[1] = "Error searching properties: "

\* the interpreter failed, its fallback was searched, the embedder failed
\* too, and search_properties answered
C13_Witness ==
    /\ pc = "done"
    /\ interp_failed
    /\ exc = "EncodeError"
    /\ tool = "search_properties"
    /\ outcome = SearchError("EncodeError")

\* ---- C14
\* how far a position of the request is along the pipeline
StageRank(p) ==
    CASE p = "idle" -> 0
      [] p = "parsed" -> 1
      [] p = "filtered" -> 2
      [] p = "ranked" -> 3
      [] p \in {"returned", "raised"} -> 4
      [] p = "done" -> 5

\* C14: within a request every step moves forward along interpret, filter,
\* rerank, truncate (so none runs twice); the rerank step starts only from
\* the complete list find returned for the request's query, with nothing
\* ranked or truncated yet; results are cut only from the ranked list, by
\* the step after ranking; and the pipeline skips ranking only when find
\* returned no candidate or a step raised.
C14_StagesInOrder ==
    [][/\ pc' # pc =>
             \/ pc = "done" /\ pc' = "idle"
             \/ StageRank(pc') > StageRank(pc)
       /\ pc' = "parsed" => pc = "idle"
       /\ pc' = "filtered" =>
             /\ pc = "parsed"
             /\ candidates' \in Find(build_query(parsed_message), store)
             /\ candidates' # <<>>
             /\ ranked_candidates' = <<>> /\ final_results' = <<>>
       /\ pc' = "ranked" =>
             /\ pc = "filtered"
             /\ candidates' = candidates
             /\ Len(ranked_candidates') = Len(candidates)
             /\ final_results' = <<>>
       /\ (pc' = "returned" /\ exc' = "none") =>
             \/ pc = "parsed" /\ candidates' = <<>> /\ final_results' = <<>>
             \/ /\ pc = "ranked"
                /\ final_results' = Truncate(ranked_candidates, top_k)
                /\ ranked_candidates' = ranked_candidates
      ]_vars

\* a request went through all four stages: every listing of the store was
\* found, reranked into another order and cut to fewer
C14_Witness ==
    /\ pc = "returned"
    /\ Len(candidates) = Len(store)
    /\ Reranked
    /\ ranked_candidates # candidates
    /\ final_results # <<>>
    /\ Len(final_results) < Len(ranked_candidates)

\* ---- C15
\* C15 as stated: no step of a filter construction or of a search request
\* changes the store: its documents and its indexes stay as they were.
C15_StoreNeverModified ==
    [][store' = store /\ indexes' = indexes]_vars

\* ---- C16
\* what search_properties returns for the inputs of request q (its message,
\* its top_k, and what the store, BM25 and the embedder answered it) when
\* no other request is running
search_alone(q) ==
    LET found   == q.candidates
        rag     == DictGetDefault(q.parsed_message.rag_content)
        reranks == rag.k # "none" /\ Strip(rag.s) # <<>> /\ Len(found) > 1
        ranked  == IF reranks
                   THEN rerank(FinalScores(alpha, beta, q.emb_scores,
                                           q.bm25_scores), found)
                   ELSE found
    IN  IF q.exc # "none" THEN SearchError(q.exc)
        ELSE IF found = <<>> THEN SearchEmpty
        ELSE SearchFound(q.user_query, Truncate(ranked, q.top_k))

\* C16: however the steps of the requests interleave, the outcome of every
\* finished request is the one its inputs give when run alone; and no step
\* changes the store, the indexes or the reranker's weights.
C16_InterleavingIsolated ==
    /\ [](\A r \in Requests :
             reqs[r].pc = "done" =>
                 /\ reqs[r].outcome = search_alone(reqs[r])
                 /\ reqs[r].exc # "StoreError" =>
                        reqs[r].candidates
                            \in Find(build_query(reqs[r].parsed_message), store))
    /\ [][alpha' = alpha /\ beta' = beta /\ store' = store
          /\ indexes' = indexes]_vars

\* both requests were ranking the same two listings at once with scores
\* that order them differently, and both have answered
C16_Witness ==
    /\ reqs["r1"].pc = "done"
    /\ reqs["r2"].pc = "done"
    /\ reqs["r1"].emb_scores # <<>>
    /\ reqs["r2"].emb_scores # <<>>
    /\ reqs["r1"].ranked_candidates # reqs["r2"].ranked_candidates
    /\ reqs["r1"].outcome # reqs["r2"].outcome

\* ---- C18
\* candidate t has a semantic score above every other candidate's
StrictlyTopSemantic(t) ==
    \A j \in DOMAIN rr_in.emb : j # t => rr_in.emb[t] > rr_in.emb[j]

\* C18: with the candidates, their semantic and lexical scores and beta
\* fixed, a candidate whose semantic score is strictly above every other's
\* stands, under the larger alpha, at the same position or nearer the front
\* than under the smaller alpha.
C18_AlphaMonotone ==
    rr_out # NoCall =>
        \A t \in DOMAIN rr_in.candidates :
            StrictlyTopSemantic(t) =>
                PosIn(rr_out.second, rr_in.candidates[t])
                    <= PosIn(rr_out.first, rr_in.candidates[t])

\* the semantically best candidate was last under the smaller alpha, behind
\* lexically better ones, and is first under the larger
C18_Witness ==
    /\ rr_out # NoCall
    /\ \E t \in DOMAIN rr_in.candidates :
          /\ StrictlyTopSemantic(t)
          /\ PosIn(rr_out.first, rr_in.candidates[t]) = Len(rr_in.candidates)
          /\ PosIn(rr_out.second, rr_in.candidates[t]) = 1

\* ---- C19
\* C19: every outcome of search_properties has a status among ok, empty
\* and error, a count equal to the length of its results, and no results
\* when its status is empty or error.
C19_StatusOkEmptyError ==
    (pc = "done" /\ tool = "search_properties") =>
        /\ outcome.status \in {"ok", "empty", "error"}
        /\ outcome.count = Len(outcome.results)
        /\ outcome.status \in {"empty", "error"} => outcome.results = <<>>

\* ---- C20
\* what a field contributes when an absent field (left out or null)
\* contributes the empty string
TextOrEmpty(v) == IF v.k \in Absent THEN <<>> ELSE v.s
IntOrEmpty(v) == IF v.k \in Absent THEN <<>> ELSE IntToStr(v.n)
ItemsOrEmpty(v) == IF v.k \in Absent THEN <<>> ELSE v.items

\* the blob in which every absent field stands as the empty string
BlobWithEmpties(c) ==
    LET terms == IF c.rental_terms.k \in Absent THEN <<>> ELSE c.rental_terms.vals
    IN  TextOrEmpty(c.title) \o <<" ">> \o TextOrEmpty(c.description)
        \o <<" ">> \o IntOrEmpty(c.bedroom) \o BedroomChars
                   \o IntOrEmpty(c.bathroom) \o BathroomChars
        \o <<" ">> \o JoinSpace(IF c.amenities.k \in Absent THEN <<>>
                                ELSE ItemsOrEmpty(c.amenities.appliances))
        \o <<" ">> \o JoinSpace(IF c.amenities.k \in Absent THEN <<>>
                                ELSE ItemsOrEmpty(c.amenities.utilities_included))
        \o <<" ">> \o JoinSpace([i \in DOMAIN terms |-> TextOrEmpty(terms[i])])

\* C20 as stated: whatever fields of the listing are missing,
\* build_listing_text returns a text, in which each missing field stands
\* as the empty string and no token None appears.
C20_MissingFieldsGiveEmpty ==
    listing_text # NoCall =>
        /\ listing_text.k = "str"
        /\ listing_text.s = BlobWithEmpties(listing)
        /\ NoneChars \notin Range(Split(listing_text.s))

\* C21: a search request can be abandoned by its caller while it waits for
\* the store or the model: a cancel call made while execute waits for the
\* search tool's answer is honoured (the task ends canceled, the call does
\* not end in an error),
\* and the executor's shared state is as it was before the request.
C21_CancelAbandonsRequest ==
    [][\A t \in ExecTasks :
          (ex_pc[t] = "calling" /\ cancel_result'[t] # cancel_result[t]) =>
              /\ cancel_result'[t] = "canceled"
              /\ ex_pc'[t] = "ended"]_vars

\* C22: every started search request eventually returns an outcome, also
\* when the store call or the embedding call never answers (both calls are
\* bounded by a timeout).
C22_RequestEventuallyReturns == [](pc # "idle" => <>(outcome # Pending))

\* a sequence of status updates is zero or more working updates followed
\* by at most one terminal update
TerminalStates == {"completed", "failed"}

WorkingThenTerminal(ups) ==
    \A i \in 1..Len(ups) :
        IF i < Len(ups) THEN ups[i].state = "working"
        ELSE ups[i].state \in {"working"} \cup TerminalStates

\* C23: for every execute call of an agent executor, the statuses emitted
\* are zero or more working updates followed by at most one terminal status
\* (completed or failed); none follows a terminal one.
C23_WorkingThenOneTerminal ==
    /\ \A t \in ExecTasks : WorkingThenTerminal(updates[t])
    /\ \A t \in StreamTasks : WorkingThenTerminal(st_updates[t])

\* two executes have run side by side on the one executor: both sent
\* working updates first, one has ended completed and the other failed
C23_Witness ==
    \E t, u \in ExecTasks :
        /\ Len(updates[t]) > 1
        /\ updates[t][Len(updates[t])].state = "completed"
        /\ Len(updates[u]) > 1
        /\ updates[u][Len(updates[u])].state = "failed"

\* the step on which caller p's process_agent_response, made on a session
\* that existed, comes back
ResponseProcessed(p) ==
    /\ procs[p].pc = "read"
    /\ procs[p].op = "process_agent_response"
    /\ procs'[p].pc = "returned"

\* should_route_to_orchestrator answers (True, None) exactly for a session
\* without an active agent
RouteIffNoActiveAgent ==
    \A session_id \in SessionIds :
        should_route_to_orchestrator(redis, session_id) = <<TRUE, PyNone>>
            <=> (HasSession(redis, session_id)
                    => redis[session_id].active_agent = PyNone)

\* C24 as stated: after process_agent_response on an existing session the
\* next should_route_to_orchestrator returns (True, None) for COMPLETE and
\* ESCALATE and (False, agent_name) for CONTINUE; it returns (True, None)
\* exactly when the session has no active agent.
C24_RouteFollowsSignal ==
    /\ []RouteIffNoActiveAgent
    /\ [][\A p \in Procs :
            ResponseProcessed(p) =>
                should_route_to_orchestrator(redis', procs[p].sid)
                    = IF procs[p].signal = "CONTINUE"
                      THEN <<FALSE, procs[p].agent_name>>
                      ELSE <<TRUE, PyNone>>]_vars

\* C24 amended: for CONTINUE the answer is (False, agent_name) when
\* agent_name is not the empty string, and (True, None) when it is (an
\* empty active_agent clears the field).
C24_RouteFollowsSignalNamed ==
    /\ []RouteIffNoActiveAgent
    /\ [][\A p \in Procs :
            ResponseProcessed(p) =>
                should_route_to_orchestrator(redis', procs[p].sid)
                    = IF procs[p].signal = "CONTINUE" /\ procs[p].agent_name # ""
                      THEN <<FALSE, procs[p].agent_name>>
                      ELSE <<TRUE, PyNone>>]_vars

\* a CONTINUE response of a named agent was processed on an existing session
\* and the session routes to the responding agent
C24_Witness ==
    \E p \in Procs :
        /\ procs[p].pc = "returned"
        /\ procs[p].op = "process_agent_response"
        /\ procs[p].signal = "CONTINUE"
        /\ procs[p].exists
        /\ procs[p].agent_name = "alert"
        /\ should_route_to_orchestrator(redis, procs[p].sid) = <<FALSE, "alert">>

\* the step on which caller p calls a store update for a session id that
\* does not exist
CalledOnMissing(p) ==
    /\ procs[p].pc = "idle"
    /\ procs'[p].pc # "idle"
    /\ ~HasSession(redis, procs'[p].sid)

\* C25: update_session, set_active_agent and clear_active_agent called
\* with a session id that does not exist return None and leave the store
\* unchanged; they never create a session, so get_session for that id
\* still returns None.
C25_MissingSessionUntouched ==
    /\ [](\A p \in Procs : procs[p].pc = "read" => procs[p].exists)
    /\ [][\A p \in Procs :
            CalledOnMissing(p) =>
                /\ procs'[p].pc = "returned"
                /\ ~procs'[p].exists
                /\ redis' = redis
                /\ ~HasSession(redis', procs'[p].sid)]_vars

\* set_active_agent came back with None for a session that does not exist
\* while another session is saved
C25_Witness ==
    \E p \in Procs :
        /\ procs[p].pc = "returned"
        /\ procs[p].op = "set_active_agent"
        /\ ~procs[p].exists
        /\ ~HasSession(redis, procs[p].sid)
        /\ DOMAIN redis # {}

\* C26: parse_and_confirm_listing inserts a listing only when
\* user_confirmation is one of yes, y, confirm, approve, save and parsing
\* succeeded; for any other value or a failed parse nothing is inserted,
\* and each affirmative call (on a parsed listing, the store accepting the
\* insert) inserts exactly one document.
C26_InsertIffConfirmed ==
    lc_call.k = "call" =>
        LET affirmative ==
                confirmation_lower(lc_call.user_confirmation) \in AffirmativeWords
            parsed == lc_call.parsed_data.k = "dict" /\ lc_call.parsed_data.ok
        IN  Len(inserted) - lc_call.before =
                IF affirmative /\ parsed /\ lc_call.insert_ok THEN 1 ELSE 0

\* the half of C26 that holds: nothing is inserted without an affirmative
\* confirmation or after a failed parse
NoInsertUnlessConfirmed ==
    lc_call.k = "call" =>
        LET affirmative ==
                confirmation_lower(lc_call.user_confirmation) \in AffirmativeWords
            parsed == lc_call.parsed_data.k = "dict" /\ lc_call.parsed_data.ok
        IN  /\ Len(inserted) - lc_call.before \in {0, 1}
            /\ Len(inserted) - lc_call.before = 1 => affirmative /\ parsed

\* the condition C27 gives for an alert to be returned for a listing
AlertMatches(alert, new_listing) ==
    /\ alert.status = "active"
    /\ \/ alert.location.k = "none"
       \/ /\ new_listing.address.k = "str"
          /\ Contains(Lower(new_listing.address.s), Lower(alert.location.s))
    /\ \/ alert.price.k = "none"
       \/ /\ new_listing.price.k = "int"
          /\ alert.price.n >= new_listing.price.n

\* C27: find_matching_alerts (the alert collection answering) returns an
\* alert for a new listing if and only if the alert is active, its location
\* is null or a case-insensitive substring of the listing's address, and
\* its price is null or at least the listing's price; inactive alerts are
\* never returned.
C27_MatchIffCriteria ==
    (mon # NoCall /\ mon.find_ok) =>
        \A i \in DOMAIN mon.seen :
            (\E j \in DOMAIN mon.matching_alerts : mon.matching_alerts[j] = i)
                <=> AlertMatches(mon.seen[i], mon.listing)

\* the same for listings that carry an address and a price
MatchIffCriteriaWhenFilled ==
    (mon # NoCall /\ mon.find_ok
        /\ mon.listing.address.k = "str" /\ mon.listing.price.k = "int") =>
        \A i \in DOMAIN mon.seen :
            (\E j \in DOMAIN mon.matching_alerts : mon.matching_alerts[j] = i)
                <=> AlertMatches(mon.seen[i], mon.listing)

\* ---------------------------------------------------------------------
\* Concurrent update_session calls on one session.  The store holds no
\* lock and uses no transaction: every caller that shares the Redis server
\* runs get_session and _save as two separate commands, and the commands of
\* different callers interleave.  Each caller makes one update_session call
\* with increment_turn on the session "s1", which exists from the start.

RaceSession == "s1"

IncrementCalls == { call \in UpdateSessionCalls : call.a.increment_turn }

RaceCreate ==
    /\ ~HasSession(redis, RaceSession)
    /\ CreateSession(RaceSession)

RaceNext ==
    \/ RaceCreate
    \/ \E p \in Procs :
          \/ \E call \in IncrementCalls :
                /\ HasSession(redis, RaceSession)
                /\ UpdateRead(p, RaceSession, call)
          \/ UpdateSave(p)

RaceSpec == SvcInit /\ [][RaceNext]_vars

\* the update_session calls that have returned
Completed == { p \in Procs : procs[p].pc = "returned" }

\* no update_session call stands between its get_session and its _save
NoneInFlight == \A p \in Procs : procs[p].pc # "read"

\* C28: whenever no update_session call is in flight on the session, its
\* turn_count is its initial value (0) plus the number of completed
\* increment_turn calls: no increment is lost between get_session and _save
C28_NoLostIncrement ==
    (HasSession(redis, RaceSession) /\ NoneInFlight)
        => redis[RaceSession].turn_count = Cardinality(Completed)

\* C29: on every return of process_new_listing the statistics account for
\* every matching alert as one sent email or one error:
\* emails_sent + errors = matches_found
C29_StatsAccountForMatches ==
    (mon # NoCall /\ mon.pc = "returned") =>
        mon.stats.emails_sent + mon.stats.errors = mon.stats.matches_found

\* C30: when execute has returned, the task is in a terminal state,
\* completed or failed; it is never left submitted or working
C30_ExecuteEndsTerminal ==
    \A t \in StreamTasks :
        (st_pc[t] = "ended" /\ ~st_raised[t]) =>
            TaskStateOf(st_updates[t]) \in TerminalStates

====
